---------------------------- MODULE Spec2Model ----------------------------
(***************************************************************************)
(* Verification model of the dg numerical kernel layer (feltor):           *)
(*   - DefaultSolver::solve around the preconditioned CG iteration         *)
(*   - the dot products (distributed, vector-of-vectors)                   *)
(*   - MPI_Matrix::symv with its halo exchange                             *)
(* Each part has its own specification over the shared variables; the      *)
(* variables of the other parts stay at their idle values.                 *)
(***************************************************************************)
EXTENDS Integers, Sequences, FiniteSets, TLC

VARIABLES
    \* ---- DefaultSolver::solve and the CG iteration ----
    svPc,        \* position inside DefaultSolver::solve
    benchmark,   \* TRUE: built with DG_BENCHMARK
    printed,     \* the iteration number printed by the DG_BENCHMARK branch
    svFail,      \* the failure that leaves solve (NoValue, or <<failure>>)
    cgPc,        \* state of the CG state machine
    max_iter,    \* CG::max_iter
    eps,         \* relative tolerance m_eps, a fraction <<num, den>>
    nrmb,        \* weighted norm of the right hand side b
    res,         \* weighted norm of the current residual
    k,           \* loop counter of the CG iteration
    iters,       \* number of CG iterations performed so far
    cgRet,       \* value returned by the CG call (NoValue, or <<count>>)
    cgFail,      \* ConvergenceFailure raised by the CG call (NoValue, or <<failure>>)
    \* ---- distributed dot product doDot( x, m, y, MPIPreconTag, MPIVectorTag) ----
    dX,          \* per process: local payload x.data (ghost cells included)
    dY,          \* per process: local payload y.data
    dM,          \* m.data of the preconditioner (its size is the stride)
    dNx,         \* per process: x.Nx (local columns, the two ghost columns included)
    dGlobal,     \* the global x the local payloads were cut from
    dPc,         \* per process: position inside doDot
    dTemp,       \* per process: the local partial sum temp
    dSum,        \* per process: the value returned (NoValue, or <<sum>>)
    \* ---- dot product of vectors of vectors (doDot_superacc / doDot) ----
    vX1,         \* x1: a sequence of component vectors
    vX2,         \* x2: a sequence of component vectors
    vPath,       \* "superacc": doDot( x, y, VectorVectorTag);
                 \* "std": doDot( x, m, y, AnyMatrixTag, StdVectorTag)
    vDebug,      \* TRUE: built with DG_DEBUG
    vPc,         \* position inside the dot product
    vAcc,        \* acc: one accumulator per component
    vI,          \* loop index i of the merge loop
    vOutcome,    \* how the call ended
    vResult,     \* the value returned (NoValue, or <<value>>)
    vOOB,        \* TRUE: an element of an empty acc was read
    \* ---- MPI_Matrix::symv( x, y) on a Cartesian process grid ----
    smDims,      \* <<number of processes along x, along y>>
    smPeriodic,  \* <<the communicator is periodic along x, along y>>
    smMat,       \* the matrix: dataX_, dataY_, offset_, p_ (the same on all)
    smXterm,     \* per process: the boundary terms xterm_
    smYterm,     \* per process: the boundary terms yterm_
    smX,         \* per process: x.data() (ghost cells included)
    smX0,        \* per process: x.data() as it was when symv was called
    smMat0,      \* the matrix and the boundary terms as they were then
    smY,         \* per process: y.data()
    smPc,        \* per process: position inside symv
    smChan,      \* boundary layers sent and not yet received
    smLog,       \* per process: the phases of symv entered so far, in order
    smSent,      \* per process: number of messages sent along <<x, y>>
    \* ---- doSymv( alpha, m, x, beta, y) on a vector of vectors ----
    abAlpha,     \* alpha
    abBeta,      \* beta
    abM,         \* m.data, the diagonal weights
    abX,         \* x, a sequence of component vectors
    abY,         \* y
    abY0,        \* y as it was when doSymv was called
    abI,         \* number of components already done
    abPc,        \* position inside doSymv
    \* ---- a group of processes making collective calls (symv, dot) ----
    coDims,      \* <<number of processes along x, along y>>
    coPeriodic,  \* <<the communicator is periodic along x, along y>>
    coUpdate,    \* <<updateX, updateY>> of the matrix the group applies
    coProg,      \* per process: the calls it makes, in order
    coCall,      \* per process: index of the call it is at
    coPc,        \* per process: position inside the call
    coHalo,      \* boundary layers posted and not yet received, per
                 \* <<receiver, axis, side>>
    coPosted,    \* per process: exchanges entered, along <<x, y>>
    coPassed,    \* per process: exchanges left, along <<x, y>>
    coSent,      \* per process: partial sums given to MPI_Allreduce
    coDotRet,    \* per process: the values its dot calls returned
    srEnclosing, \* threads of the parallel region the caller runs in; 0: serial code
    srTeam,      \* threads a parallel region opened by the dispatch gets
    srSize,      \* x.size(), the number of component vectors
    srCuts,      \* the contiguous index ranges of the worksharing loop
    srX,         \* the component vectors
    srX0,        \* the component vectors as they were at the call
    srApplied,   \* per element: how often the subroutine was applied to it
    srWriters,   \* per element: the threads that have written it
    srPc,        \* per thread: position inside the dispatch
    srBound,     \* per thread: the team its worksharing loops bind to
    srOpener,    \* per thread: who opened the region it works in, 0: the caller's
    srI,         \* per thread: the loop variable i of the dispatch
    srJ,         \* per thread: the next element of its range
    axProg,      \* the caller: which driver's axpby calls are run
    axStore,     \* the vectors of the driver, by name
    axOld,       \* the vectors as they were when the current call was made
    axCall,      \* the current call: a, x, b, y and the output z; <<>>: none
    axDone,      \* how many calls of the driver have returned
    axI,         \* the index the elementwise loop is at
    axPc,        \* position: "call", "loop", "returned", "norm", "done"
    axNorm,      \* the squared weighted norm the driver prints; <<>>: none
    drMaxout,    \* p.maxout: the number of field outputs
    drItstp,     \* p.itstp: the time steps between two outputs
    drI,         \* the loop variable i
    drJ,         \* the loop variable j
    drPc,        \* position in main
    drSteps,     \* time steps taken in the loop (ab returned)
    drAppends,   \* t5file.append calls made in the loop
    drWrites,    \* t5file.write calls made in the loop
    drTime,      \* time, in units of p.dt
    drFailed,    \* a time step has thrown dg::Fail
    drReported,  \* the failure has been written to std::cerr
    vsOp,        \* "subroutine" or "symv"
    vsA,         \* the scalar argument of the subroutine
    vsM,         \* the matrix of symv (one weight per element)
    vsX,         \* the input vector of vectors
    vsY,         \* the output vector of vectors
    vsY0,        \* the output vector of vectors as it was at the call
    vsI,         \* the loop variable i
    vsLog,       \* the calls made on components: <<i, scalar, x, y>>
    vsPc,        \* "loop" or "done"
    m_chi,       \* Elliptic: the tensor chi times the volume element
    m_sigma,     \* Elliptic: the scalar part of chi
    m_precond,   \* Elliptic: the preconditioner
    m_tempx,     \* Elliptic: scratch vector
    m_vol,       \* Elliptic: the volume element of the metric
    elMetric,    \* the metric of the grid the object was constructed from
    elInvW,      \* dg::create::inv_weights( g)
    elSigma,     \* the argument of the last set_chi( sigma); <<>>: none
    elTau,       \* the argument of the last set_chi( tau); <<>>: none
    elCalls,     \* the number of set_chi calls made
    e3Entry,     \* Elliptic3d: the constructor or construct overload called
    e3Args,      \* Elliptic3d: the caller's arguments
    e3Pc,        \* Elliptic3d: "call", "built" or "rejected"
    e3Obj,       \* Elliptic3d: the members construct sets; <<>>: none set
    d2Ret,       \* doDot( m, x): what the call returned, per process
    cvX,         \* doDot on a grid: x.data of every process
    cvY,         \* doDot on a grid: y.data of every process
    cvM,         \* doDot on a grid: m.data, one weight per stride entry
    cvNx,        \* doDot on a grid: x.Nx of every process
    cvOff,       \* doDot on a grid: global columns left of every process
    cvKinds,     \* doDot on a grid: which global fields x and y hold
    cvPc,        \* doDot on a grid: "call", "allreduce" or "returned"
    cvTemp,      \* doDot on a grid: temp of every process
    cvSum,       \* doDot on a grid: the value every process returned
    cvVisited    \* doDot on a grid: the flat indices the loops read, in order

cgVars == <<svPc, benchmark, printed, svFail, cgPc, max_iter, eps, nrmb, res,
            k, iters, cgRet, cgFail>>

mdVars == <<dX, dY, dM, dNx, dGlobal, dPc, dTemp, dSum>>

vdVars == <<vX1, vX2, vPath, vDebug, vPc, vAcc, vI, vOutcome, vResult, vOOB>>

smVars == <<smDims, smPeriodic, smMat, smXterm, smYterm, smX, smX0, smMat0,
            smY, smPc, smChan, smLog, smSent>>

abVars == <<abAlpha, abBeta, abM, abX, abY, abY0, abI, abPc>>

coVars == <<coDims, coPeriodic, coUpdate, coProg, coCall, coPc, coHalo, coPosted,
            coPassed, coSent, coDotRet>>

srVars == <<srEnclosing, srTeam, srSize, srCuts, srX, srX0, srApplied, srWriters,
            srPc, srBound, srOpener, srI, srJ>>

axVars == <<axProg, axStore, axOld, axCall, axDone, axI, axPc, axNorm>>

drVars == <<drMaxout, drItstp, drI, drJ, drPc, drSteps, drAppends, drWrites,
            drTime, drFailed, drReported>>

vsVars == <<vsOp, vsA, vsM, vsX, vsY, vsY0, vsI, vsLog, vsPc>>

elVars == <<m_chi, m_sigma, m_precond, m_tempx, m_vol, elMetric, elInvW, elSigma,
            elTau, elCalls>>

e3Vars == <<e3Entry, e3Args, e3Pc, e3Obj>>

md2Vars == <<d2Ret>>

cvVars == <<cvX, cvY, cvM, cvNx, cvOff, cvKinds, cvPc, cvTemp, cvSum, cvVisited>>

vars == <<cgVars, mdVars, vdVars, smVars, abVars, coVars, srVars, axVars, drVars, vsVars, elVars, e3Vars, md2Vars, cvVars>>

\* an absent value is the empty sequence, a present value v is <<v>>
NoValue == <<>>
Some(v) == <<v>>

(***************************************************************************)
(* Bounds of the CG part.                                                  *)
(***************************************************************************)
MaxIter == 3
MaxNorm == 3

Norms == 0..MaxNorm
EpsValues == {<<1, 2>>, <<1, 1>>}

(***************************************************************************)
(* Idle values: each specification runs one part and keeps the variables   *)
(* of the other parts at these values.                                     *)
(***************************************************************************)
notCG == <<mdVars, vdVars, smVars, abVars, coVars, srVars, axVars, drVars, vsVars, elVars, e3Vars, md2Vars, cvVars>>
notMpiDot == <<cgVars, vdVars, smVars, abVars, coVars, srVars, axVars, drVars, vsVars, elVars, e3Vars, md2Vars, cvVars>>
notVecDot == <<cgVars, mdVars, smVars, abVars, coVars, srVars, axVars, drVars, vsVars, elVars, e3Vars, md2Vars, cvVars>>
notSymv == <<cgVars, mdVars, vdVars, abVars, coVars, srVars, axVars, drVars, vsVars, elVars, e3Vars, md2Vars, cvVars>>
notSymvAB == <<cgVars, mdVars, vdVars, smVars, coVars, srVars, axVars, drVars, vsVars, elVars, e3Vars, md2Vars, cvVars>>
notCollective == <<cgVars, mdVars, vdVars, smVars, abVars, srVars, axVars, drVars, vsVars, elVars, e3Vars, md2Vars, cvVars>>
notSubroutine == <<cgVars, mdVars, vdVars, smVars, abVars, coVars, axVars, drVars, vsVars, elVars, e3Vars, md2Vars, cvVars>>
notAxpby == <<cgVars, mdVars, vdVars, smVars, abVars, coVars, srVars, drVars, vsVars, elVars, e3Vars, md2Vars, cvVars>>
notDriver == <<cgVars, mdVars, vdVars, smVars, abVars, coVars, srVars, axVars, vsVars, elVars, e3Vars, md2Vars, cvVars>>
notVecSub == <<cgVars, mdVars, vdVars, smVars, abVars, coVars, srVars, axVars, drVars, elVars, e3Vars, md2Vars, cvVars>>
notElliptic == <<cgVars, mdVars, vdVars, smVars, abVars, coVars, srVars, axVars, drVars, vsVars, e3Vars, md2Vars, cvVars>>
notElliptic3d == <<cgVars, mdVars, vdVars, smVars, abVars, coVars, srVars, axVars, drVars, vsVars, elVars, md2Vars, cvVars>>
notMpiDot2 == <<cgVars, mdVars, vdVars, smVars, abVars, coVars, srVars, axVars, drVars, vsVars, elVars, e3Vars, cvVars>>
notDotGrid == <<cgVars, mdVars, vdVars, smVars, abVars, coVars, srVars, axVars, drVars, vsVars, elVars, e3Vars, md2Vars>>

CGIdle ==
    /\ svPc = "idle" /\ benchmark = FALSE /\ printed = NoValue
    /\ svFail = NoValue /\ cgPc = "idle" /\ max_iter = 0 /\ eps = <<1, 1>>
    /\ nrmb = 0 /\ res = 0 /\ k = 0 /\ iters = 0
    /\ cgRet = NoValue /\ cgFail = NoValue

MpiDotIdle ==
    /\ dX = <<>> /\ dY = <<>> /\ dM = <<>> /\ dNx = <<>> /\ dGlobal = <<>>
    /\ dPc = <<>> /\ dTemp = <<>> /\ dSum = <<>>

VecDotIdle ==
    /\ vX1 = <<>> /\ vX2 = <<>> /\ vPath = "superacc" /\ vDebug = FALSE
    /\ vPc = "idle" /\ vAcc = <<>> /\ vI = 0 /\ vOutcome = "none"
    /\ vResult = NoValue /\ vOOB = FALSE

SymvIdle ==
    /\ smDims = <<1, 1>> /\ smPeriodic = <<TRUE, TRUE>> /\ smMat = <<>>
    /\ smXterm = <<>> /\ smYterm = <<>> /\ smX = <<>> /\ smX0 = <<>>
    /\ smMat0 = <<>> /\ smY = <<>>
    /\ smPc = <<>> /\ smChan = {} /\ smLog = <<>> /\ smSent = <<>>

SymvABIdle ==
    /\ abAlpha = 0 /\ abBeta = 0 /\ abM = <<>> /\ abX = <<>> /\ abY = <<>>
    /\ abY0 = <<>> /\ abI = 0 /\ abPc = "idle"

CollectiveIdle ==
    /\ coDims = <<1, 1>> /\ coPeriodic = <<TRUE, TRUE>>
    /\ coUpdate = <<FALSE, FALSE>> /\ coProg = <<>> /\ coCall = <<>>
    /\ coPc = <<>> /\ coHalo = <<>> /\ coPosted = <<>> /\ coPassed = <<>>
    /\ coSent = <<>> /\ coDotRet = <<>>

SubroutineIdle ==
    /\ srEnclosing = 0 /\ srTeam = 1 /\ srSize = 0 /\ srCuts = <<>>
    /\ srX = <<>> /\ srX0 = <<>> /\ srApplied = <<>> /\ srWriters = <<>>
    /\ srPc = <<>> /\ srBound = <<>> /\ srOpener = <<>> /\ srI = <<>>
    /\ srJ = <<>>

AxpbyIdle ==
    /\ axProg = "none" /\ axStore = <<>> /\ axOld = <<>> /\ axCall = <<>>
    /\ axDone = 0 /\ axI = 0 /\ axPc = "idle" /\ axNorm = <<>>

DriverIdle ==
    /\ drMaxout = 0 /\ drItstp = 0 /\ drI = 0 /\ drJ = 0 /\ drPc = "idle"
    /\ drSteps = 0 /\ drAppends = 0 /\ drWrites = 0 /\ drTime = 0
    /\ drFailed = FALSE /\ drReported = FALSE

VecSubIdle ==
    /\ vsOp = "none" /\ vsA = 0 /\ vsM = <<>> /\ vsX = <<>> /\ vsY = <<>>
    /\ vsY0 = <<>> /\ vsI = 0 /\ vsLog = <<>> /\ vsPc = "idle"

EllipticIdle ==
    /\ m_chi = <<>> /\ m_sigma = <<>> /\ m_precond = <<>> /\ m_tempx = <<>>
    /\ m_vol = <<>> /\ elMetric = <<>> /\ elInvW = <<>> /\ elSigma = <<>>
    /\ elTau = <<>> /\ elCalls = 0

Elliptic3dIdle ==
    /\ e3Entry = "none" /\ e3Args = <<>> /\ e3Pc = "idle" /\ e3Obj = <<>>

MpiDot2Idle ==
    /\ d2Ret = <<>>

DotGridIdle ==
    /\ cvX = <<>> /\ cvY = <<>> /\ cvM = <<>> /\ cvNx = <<>> /\ cvOff = <<>>
    /\ cvKinds = <<>> /\ cvPc = <<>> /\ cvTemp = <<>> /\ cvSum = <<>>
    /\ cvVisited = <<>>

(***************************************************************************)
(* DefaultSolver::solve and CG                                             *)
(***************************************************************************)

\* the convergence test: residual norm < eps * norm of b
BelowTolerance(r) == r * eps[2] < eps[1] * nrmb

\* the loop of the iteration runs k = 1..max_iter
CanIterateMut == k < max_iter + 1
CanIterate == k < max_iter

\* what a successful CG call returns: the iteration count used
CGReturnValueMut == Some(k + 1)
CGReturnValue == Some(k)

\* what the ConvergenceFailure carries: the residual scale achieved
CGFailureMut == Some([kind |-> "ConvergenceFailure", residual |-> 0])
CGFailure == Some([kind |-> "ConvergenceFailure", residual |-> res])

\* DefaultSolver( copyable, max_iter, eps) followed by a call of solve
InitCG ==
    /\ svPc = "call"
    /\ benchmark \in BOOLEAN
    /\ printed = NoValue
    /\ svFail = NoValue
    /\ cgPc = "idle"
    /\ max_iter \in 0..MaxIter
    /\ eps \in EpsValues
    /\ nrmb \in Norms
    /\ res \in Norms
    /\ k = 0
    /\ iters = 0
    /\ cgRet = NoValue
    /\ cgFail = NoValue
    /\ MpiDotIdle
    /\ VecDotIdle
    /\ SymvIdle
    /\ SymvABIdle
    /\ CollectiveIdle
    /\ SubroutineIdle
    /\ AxpbyIdle
    /\ DriverIdle
    /\ VecSubIdle
    /\ EllipticIdle
    /\ Elliptic3dIdle
    /\ MpiDot2Idle
    /\ DotGridIdle

\* solve: build the implicit operator, m_rhs = weights * rhs, enter m_pcg
SolveSymvRhs ==
    /\ svPc = "call"
    /\ svPc' = "pcg"
    /\ cgPc' = "Init"
    /\ UNCHANGED <<benchmark, printed, svFail, max_iter, eps, nrmb, res, k,
                   iters, cgRet, cgFail>>
    /\ UNCHANGED notCG

\* CG: initial residual and norm of b are computed, the loop is entered
CGInit ==
    /\ cgPc = "Init"
    /\ cgPc' = "Iterate"
    /\ k' = 0
    /\ UNCHANGED <<svPc, benchmark, printed, svFail, max_iter, eps, nrmb, res,
                   iters, cgRet, cgFail>>
    /\ UNCHANGED notCG

\* CG: one iteration (matrix-vector product, step, new residual)
CGStep ==
    /\ cgPc = "Iterate"
    /\ ~BelowTolerance(res)
    /\ CanIterate
    /\ k' = k + 1
    /\ iters' = iters + 1
    /\ res' \in Norms
    /\ UNCHANGED <<svPc, benchmark, printed, svFail, cgPc, max_iter, eps, nrmb,
                   cgRet, cgFail>>
    /\ UNCHANGED notCG

\* CG: the tolerance is met, the iteration count is returned
CGConverged ==
    /\ cgPc = "Iterate"
    /\ BelowTolerance(res)
    /\ cgPc' = "Converged"
    /\ cgRet' = CGReturnValue
    /\ UNCHANGED <<svPc, benchmark, printed, svFail, max_iter, eps, nrmb, res,
                   k, iters, cgFail>>
    /\ UNCHANGED notCG

\* CG: max_iter reached without meeting the tolerance
CGMaxIterExceeded ==
    /\ cgPc = "Iterate"
    /\ ~BelowTolerance(res)
    /\ ~CanIterate
    /\ cgPc' = "MaxIterExceeded"
    /\ cgFail' = CGFailure
    /\ UNCHANGED <<svPc, benchmark, printed, svFail, max_iter, eps, nrmb, res,
                   k, iters, cgRet>>
    /\ UNCHANGED notCG

\* what solve does with a failure raised by m_pcg: there is no handler
SolveOnFailureMut == [pc |-> "returned", fail |-> NoValue]
SolveOnFailure == [pc |-> "threw", fail |-> cgFail]

\* solve: m_pcg returned; the DG_BENCHMARK build prints the number
SolveReturn ==
    /\ svPc = "pcg"
    /\ cgPc = "Converged"
    /\ svPc' = "returned"
    /\ printed' = IF benchmark THEN cgRet ELSE NoValue
    /\ UNCHANGED <<benchmark, svFail, cgPc, max_iter, eps, nrmb, res, k, iters,
                   cgRet, cgFail>>
    /\ UNCHANGED notCG

\* solve: m_pcg raised; the failure leaves solve
SolvePropagate ==
    /\ svPc = "pcg"
    /\ cgPc = "MaxIterExceeded"
    /\ svPc' = SolveOnFailure.pc
    /\ svFail' = SolveOnFailure.fail
    /\ UNCHANGED <<benchmark, printed, cgPc, max_iter, eps, nrmb, res, k, iters,
                   cgRet, cgFail>>
    /\ UNCHANGED notCG

NextCG ==
    \/ SolveSymvRhs
    \/ CGInit
    \/ CGStep
    \/ CGConverged
    \/ CGMaxIterExceeded
    \/ SolveReturn
    \/ SolvePropagate

SpecCG == InitCG /\ [][NextCG]_vars

\* the iteration is a sequential loop: it always takes its next step
SpecCGFair == InitCG /\ [][NextCG]_vars /\ WF_vars(NextCG)

(***************************************************************************)
(* Claims about the CG solve                                               *)
(***************************************************************************)

CGTerminal == {"Converged", "MaxIterExceeded"}

\* the arrows of Init -> Iterate(k=1..max) -> {Converged | MaxIterExceeded}
CGArrow ==
    \/ cgPc' = cgPc /\ cgPc \notin CGTerminal
    \/ cgPc = "idle" /\ cgPc' = "Init"
    \/ cgPc = "Init" /\ cgPc' = "Iterate"
    \/ cgPc = "Iterate" /\ cgPc' \in CGTerminal
    \/ cgPc \in CGTerminal /\ cgPc' = cgPc /\ k' = k /\ iters' = iters

\* C1: every CG solve follows Init -> Iterate(k=1..max) and ends in exactly
\* one of Converged (a count is returned, nothing is raised) and
\* MaxIterExceeded (a failure is raised, nothing is returned); it performs at
\* most max_iter iterations and does not stay in Iterate forever.
C1_StateMachineTerminates ==
    /\ [](/\ k <= max_iter
          /\ iters <= max_iter
          /\ cgPc = "Converged" => (cgRet # NoValue /\ cgFail = NoValue)
          /\ cgPc = "MaxIterExceeded" => (cgFail # NoValue /\ cgRet = NoValue)
          /\ cgPc \notin CGTerminal => (cgRet = NoValue /\ cgFail = NoValue))
    /\ [][CGArrow]_vars
    /\ <>(cgPc \in CGTerminal)

\* C1 witness: a solve that used all of its max_iter >= 2 iterations and ended
C1_Witness == cgPc \in CGTerminal /\ max_iter >= 2 /\ iters = max_iter

\* C2: a CG solve that returns normally returns a count k <= max_iter, the
\* count is the number of iterations performed, and the residual norm of the
\* returned x is below eps times the norm of b.
C2_ReturnedCount ==
    cgPc = "Converged" =>
        /\ cgRet # NoValue
        /\ cgRet[1] \in 0..max_iter
        /\ cgRet[1] = iters
        /\ res * eps[2] < eps[1] * nrmb

\* C2 witness: a solve that converged after two or more iterations
C2_Witness == cgPc = "Converged" /\ cgRet # NoValue /\ cgRet[1] >= 2

C4_FailurePropagates ==
    /\ (cgFail # NoValue /\ svPc \notin {"call", "pcg"}) =>
            (svPc = "threw" /\ svFail = cgFail)
    /\ svPc = "returned" => (cgFail = NoValue /\ svFail = NoValue)
    /\ svPc = "threw" => cgPc = "MaxIterExceeded"

\* C4 witness: solve was left by the failure of the CG call
C4_Witness ==
    /\ svPc = "threw"
    /\ svFail # NoValue
    /\ svFail[1].kind = "ConvergenceFailure"

(***************************************************************************)
(* Floating point arithmetic.  A double is modelled by a binary floating   *)
(* point number with MantBits significant bits (integers here, the         *)
(* exponent range is not limited); every operation rounds to nearest,      *)
(* ties to even, as IEEE 754 does.                                         *)
(***************************************************************************)
MantBits == 2

Abs(v) == IF v < 0 THEN -v ELSE v
Sign(v) == IF v < 0 THEN -1 ELSE 1

RECURSIVE Pow2(_)
Pow2(e) == IF e <= 0 THEN 1 ELSE 2 * Pow2(e - 1)

RECURSIVE BitLen(_)
BitLen(v) == IF v = 0 THEN 0 ELSE 1 + BitLen(v \div 2)

\* round-to-nearest-even of the exact value v
Fl(v) ==
    LET a == Abs(v)
        ulp == Pow2(BitLen(a) - MantBits)
        q == a \div ulp
        r == a % ulp
        up == (2 * r > ulp) \/ (2 * r = ulp /\ q % 2 = 1)
    IN  Sign(v) * (IF up THEN q + 1 ELSE q) * ulp

FlAdd(a, b) == Fl(a + b)
FlMul(a, b) == Fl(a * b)

(***************************************************************************)
(* Distributed dot product: doDot( x, m, y, MPIPreconTag, MPIVectorTag)    *)
(***************************************************************************)
GlobalLen == 3      \* global number of grid points along x
MaxDotProcs == 3    \* largest number of processes
DotNz == 1          \* x.Nz of the local payloads
DotNy == 3          \* x.Ny of the local payloads (two ghost rows included)
GhostFill == 1      \* what the ghost cells of the local payloads hold

DotValues == {1, 4}
DotWeights == {<<1>>, <<2>>}

\* the ways to cut n points into parts contiguous chunks of size >= 1
RECURSIVE Cuts(_, _)
Cuts(n, parts) ==
    IF parts = 1 THEN (IF n >= 1 THEN {<<n>>} ELSE {})
    ELSE UNION {{<<c>> \o rest : rest \in Cuts(n - c, parts - 1)} : c \in 1..n}

RECURSIVE SumSeq(_)
SumSeq(sq) == IF sq = <<>> THEN 0 ELSE Head(sq) + SumSeq(Tail(sq))

\* flat index of x.data[((k*Ny + i)*Nx + j)*stride + l]
FlatIdx(kk, i, j, l, ny, nx, stride) == ((kk * ny + i) * nx + j) * stride + l

\* the local payload of the process owning global points off+1..off+chunk:
\* nz planes of ny rows of chunk+2 columns, ghost cells around the interior
LocalPayload(global, off, chunk, nz, ny, stride) ==
    LET nx == chunk + 2
    IN  [c \in 1..(nz * ny * nx * stride) |->
            LET j == ((c - 1) \div stride) % nx
                i == ((c - 1) \div (stride * nx)) % ny
            IN  IF i >= 1 /\ i <= ny - 2 /\ j >= 1 /\ j <= nx - 2
                THEN global[off + j]
                ELSE GhostFill]

\* the loop nest of doDot over the interior, the c-th iteration and after:
\* temp += x.data[..]*m.data[l]*y.data[..]
RECURSIVE DotLoop(_, _, _, _, _, _, _, _)
DotLoop(c, temp, x, m, y, nz, ny, nx) ==
    LET stride == Len(m)
        count == nz * (ny - 2) * (nx - 2) * stride
        l == c % stride
        j == 1 + ((c \div stride) % (nx - 2))
        i == 1 + ((c \div (stride * (nx - 2))) % (ny - 2))
        kk == c \div (stride * (nx - 2) * (ny - 2))
        at == FlatIdx(kk, i, j, l, ny, nx, stride) + 1
    IN  IF ny < 3 \/ nx < 3 \/ c >= count THEN temp
        ELSE DotLoop(c + 1,
                     FlAdd(temp, FlMul(FlMul(x[at], m[l + 1]), y[at])),
                     x, m, y, nz, ny, nx)

\* double temp=0; the four loops
LocalDot(x, m, y, nz, ny, nx) == DotLoop(0, 0, x, m, y, nz, ny, nx)

\* MPI_Allreduce( &temp, &sum, 1, MPI_DOUBLE, MPI_SUM, MPI_COMM_WORLD):
\* the partial sums are added in rank order
RECURSIVE ReduceSum(_, _, _)
ReduceSum(temps, p, acc) ==
    IF p > Len(temps) THEN acc ELSE ReduceSum(temps, p + 1, FlAdd(acc, temps[p]))

Allreduce(temps) == ReduceSum(temps, 2, temps[1])

DotProcs == 1..Len(dPc)

\* the same global vectors, cut into contiguous chunks for 1..MaxDotProcs
\* processes
InitMpiDot ==
    /\ CGIdle
    /\ VecDotIdle
    /\ SymvIdle
    /\ SymvABIdle
    /\ CollectiveIdle
    /\ SubroutineIdle
    /\ AxpbyIdle
    /\ DriverIdle
    /\ VecSubIdle
    /\ EllipticIdle
    /\ Elliptic3dIdle
    /\ MpiDot2Idle
    /\ DotGridIdle
    /\ dGlobal \in [1..GlobalLen -> DotValues]
    /\ dM \in DotWeights
    /\ \E np \in 1..MaxDotProcs : \E cut \in Cuts(GlobalLen, np) :
        /\ dNx = [p \in 1..np |-> cut[p] + 2]
        /\ dX = [p \in 1..np |->
                    LocalPayload(dGlobal, SumSeq(SubSeq(cut, 1, p - 1)), cut[p],
                                 DotNz, DotNy, Len(dM))]
        /\ dY = [p \in 1..np |->
                    LocalPayload([g \in 1..GlobalLen |-> 1],
                                 SumSeq(SubSeq(cut, 1, p - 1)), cut[p],
                                 DotNz, DotNy, Len(dM))]
        /\ dPc = [p \in 1..np |-> "call"]
        /\ dTemp = [p \in 1..np |-> 0]
        /\ dSum = [p \in 1..np |-> NoValue]

\* process p runs the loops and enters MPI_Allreduce with its partial sum
DotLocalSum(p) ==
    /\ dPc[p] = "call"
    /\ dTemp' = [dTemp EXCEPT ![p] = LocalDot(dX[p], dM, dY[p], DotNz, DotNy, dNx[p])]
    /\ dPc' = [dPc EXCEPT ![p] = "allreduce"]
    /\ UNCHANGED <<dX, dY, dM, dNx, dGlobal, dSum>>
    /\ UNCHANGED notMpiDot

\* process p leaves MPI_Allreduce, once every process has entered it, and
\* returns sum
DotAllreduceReturn(p) ==
    /\ dPc[p] = "allreduce"
    /\ \A q \in DotProcs : dPc[q] \in {"allreduce", "returned"}
    /\ dSum' = [dSum EXCEPT ![p] = Some(Allreduce(dTemp))]
    /\ dPc' = [dPc EXCEPT ![p] = "returned"]
    /\ UNCHANGED <<dX, dY, dM, dNx, dGlobal, dTemp>>
    /\ UNCHANGED notMpiDot

NextMpiDot ==
    \/ \E p \in DotProcs : DotLocalSum(p)
    \/ \E p \in DotProcs : DotAllreduceReturn(p)

SpecMpiDot == InitMpiDot /\ [][NextMpiDot]_vars

\* what one process owning the whole index range computes
SerialDot ==
    LocalDot(LocalPayload(dGlobal, 0, GlobalLen, DotNz, DotNy, Len(dM)),
             dM,
             LocalPayload([g \in 1..GlobalLen |-> 1], 0, GlobalLen, DotNz, DotNy, Len(dM)),
             DotNz, DotNy, GlobalLen + 2)

\* C5: the weighted dot product returns the same value for every partition of
\* the global index range into contiguous chunks and every process count:
\* whatever the partition, each process returns what a single process owning
\* the whole range returns.
C5_DotPartitionInvariant ==
    \A p \in DotProcs : dSum[p] # NoValue => dSum[p][1] = SerialDot

(***************************************************************************)
(* Superaccumulators (exblas).  An accumulator is BIN_COUNT signed bins    *)
(* of DIGITS bits each, bin k weighing 2^(DIGITS*k); the bins may hold     *)
(* more than DIGITS bits until Normalize propagates the carries.  The      *)
(* sizes are scaled down from those of exblas.                             *)
(***************************************************************************)
BIN_COUNT == 3
DIGITS == 2
IMIN == 0                 \* the index of the first bin
IMAX == BIN_COUNT - 1     \* the index of the last bin

Base == Pow2(DIGITS)
Bins == 0..(BIN_COUNT - 1)
ZeroAcc == [b \in Bins |-> 0]

RECURSIVE BasePow(_)
BasePow(b) == IF b <= 0 THEN 1 ELSE Base * BasePow(b - 1)

\* the exact value an accumulator stands for
RECURSIVE AccValueFrom(_, _)
AccValueFrom(acc, b) ==
    IF b >= BIN_COUNT THEN 0 ELSE acc[b] * BasePow(b) + AccValueFrom(acc, b + 1)

AccValue(acc) == AccValueFrom(acc, 0)

\* exblas::cpu::Accumulate: the exact product v is added, digit by digit,
\* to the bins; no carry is propagated
Accumulate(acc, v) ==
    [b \in Bins |->
        acc[b] + Sign(v) * (IF b = BIN_COUNT - 1
                            THEN Abs(v) \div BasePow(b)
                            ELSE (Abs(v) \div BasePow(b)) % Base)]

\* doDot_superacc of two component vectors: every product goes into the
\* accumulator exactly
RECURSIVE LeafSuperaccFrom(_, _, _, _)
LeafSuperaccFrom(acc, x, y, j) ==
    IF j > Len(x) THEN acc
    ELSE LeafSuperaccFrom(Accumulate(acc, x[j] * y[j]), x, y, j + 1)

LeafSuperacc(x, y) == LeafSuperaccFrom(ZeroAcc, x, y, 1)

\* exblas::cpu::Normalize: carries are propagated upwards (arithmetic shift,
\* sign extended); the carry out of the last bin is not cancelled
RECURSIVE NormalizeFrom(_, _, _)
NormalizeFrom(acc, b, carry) ==
    LET v == acc[b] + carry
    IN  IF b = BIN_COUNT - 1 THEN [acc EXCEPT ![b] = v]
        ELSE NormalizeFrom([acc EXCEPT ![b] = v % Base], b + 1, v \div Base)

Normalize(acc) == NormalizeFrom(acc, IMIN, 0)

\* exblas::cpu::Round: the double nearest to the exact value
Round(acc) == Fl(AccValue(Normalize(acc)))

\* the body of the merge loop of doDot_superacc: both accumulators are
\* normalized, then acc[0][k] += acc[i][k] for k = IMIN .. IMAX-1; bin IMAX
\* of acc[0] stays as it is
Merge(a, b) ==
    [bin \in Bins |->
        IF bin >= IMIN /\ bin < IMAX
        THEN Normalize(a)[bin] + Normalize(b)[bin]
        ELSE Normalize(a)[bin]]

\* exblas::Superaccumulator::Accumulate( other): the bins are added
StdMerge(a, b) == [bin \in Bins |-> a[bin] + b[bin]]

(***************************************************************************)
(* Dot product of vectors of vectors                                       *)
(***************************************************************************)
MaxComps == 3       \* largest number of components

\* the component vectors the inputs are built from: <<x1[i], x2[i]>>
VecLeafPairs ==
    { <<(<<5>>), (<<1>>)>>,
      <<(<<-3>>), (<<1>>)>>,
      <<(<<2, 5>>), (<<1, -2>>)>>,
      <<(<<5, 5>>), (<<2, 2>>)>> }

\* what a read of a nonexistent accumulator may yield
GarbageValues == {0, 7}

VecSize == Len(vX1)

InitVecDot ==
    /\ CGIdle
    /\ MpiDotIdle
    /\ SymvIdle
    /\ SymvABIdle
    /\ CollectiveIdle
    /\ SubroutineIdle
    /\ AxpbyIdle
    /\ DriverIdle
    /\ VecSubIdle
    /\ EllipticIdle
    /\ Elliptic3dIdle
    /\ MpiDot2Idle
    /\ DotGridIdle
    /\ \E n \in 0..MaxComps : \E comps \in [1..n -> VecLeafPairs] :
        /\ vX1 = [i \in 1..n |-> comps[i][1]]
        /\ vX2 = [i \in 1..n |-> comps[i][2]]
    /\ vPath \in {"superacc", "std"}
    /\ vDebug \in BOOLEAN
    /\ vPc = "call"
    /\ vAcc = <<>>
    /\ vI = 0
    /\ vOutcome = "none"
    /\ vResult = NoValue
    /\ vOOB = FALSE

\* DG_DEBUG: assert( !x1.empty()) of doDot_superacc fails, the process aborts
VecDotAssertFails ==
    /\ vPc = "call"
    /\ vDebug /\ vPath = "superacc" /\ VecSize = 0
    /\ vPc' = "done"
    /\ vOutcome' = "assert_abort"
    /\ UNCHANGED <<vX1, vX2, vPath, vDebug, vAcc, vI, vResult, vOOB>>
    /\ UNCHANGED notVecDot

\* acc( x1.size()) and the first loop: acc[i] = dot of the components i
VecDotLeaves ==
    /\ vPc = "call"
    /\ ~(vDebug /\ vPath = "superacc" /\ VecSize = 0)
    /\ vAcc' = [i \in 1..VecSize |-> LeafSuperacc(vX1[i], vX2[i])]
    /\ vI' = 1
    /\ vPc' = "merge"
    /\ UNCHANGED <<vX1, vX2, vPath, vDebug, vOutcome, vResult, vOOB>>
    /\ UNCHANGED notVecDot

\* one pass of the second loop, for( i=1; i<size; i++): acc[i] is merged
\* into acc[0]
VecDotMergeStep ==
    /\ vPc = "merge"
    /\ vI < VecSize
    /\ vAcc' = IF vPath = "superacc"
               THEN [vAcc EXCEPT ![1] = Merge(vAcc[1], vAcc[vI + 1]),
                                 ![vI + 1] = Normalize(vAcc[vI + 1])]
               ELSE [vAcc EXCEPT ![1] = StdMerge(vAcc[1], vAcc[vI + 1])]
    /\ vI' = vI + 1
    /\ UNCHANGED <<vX1, vX2, vPath, vDebug, vPc, vOutcome, vResult, vOOB>>
    /\ UNCHANGED notVecDot

\* return acc[0] and Round
VecDotReturn ==
    /\ vPc = "merge"
    /\ vI >= VecSize
    /\ VecSize > 0
    /\ vResult' = Some(Round(vAcc[1]))
    /\ vOutcome' = "value"
    /\ vPc' = "done"
    /\ UNCHANGED <<vX1, vX2, vPath, vDebug, vAcc, vI, vOOB>>
    /\ UNCHANGED notVecDot

\* return acc[0] of an empty acc: the read is undefined behaviour; the call
\* crashes or returns whatever the memory holds
VecDotReturnEmpty ==
    /\ vPc = "merge"
    /\ vI >= VecSize
    /\ VecSize = 0
    /\ vOOB' = TRUE
    /\ \/ vOutcome' = "crash" /\ vResult' = NoValue
       \/ vOutcome' = "value" /\ \E g \in GarbageValues : vResult' = Some(g)
    /\ vPc' = "done"
    /\ UNCHANGED <<vX1, vX2, vPath, vDebug, vAcc, vI>>
    /\ UNCHANGED notVecDot

NextVecDot ==
    \/ VecDotAssertFails
    \/ VecDotLeaves
    \/ VecDotMergeStep
    \/ VecDotReturn
    \/ VecDotReturnEmpty

SpecVecDot == InitVecDot /\ [][NextVecDot]_vars

(***************************************************************************)
(* Claims about the dot products                                           *)
(***************************************************************************)

\* the accumulator of component i, and the merge the called function uses
CompAcc(i) == LeafSuperacc(vX1[i], vX2[i])
PathMerge(a, b) == IF vPath = "superacc" THEN Merge(a, b) ELSE StdMerge(a, b)

\* the components merged from the last one down to the first
RECURSIVE MergeDownFrom(_, _)
MergeDownFrom(acc, i) ==
    IF i < 1 THEN acc ELSE MergeDownFrom(PathMerge(acc, CompAcc(i)), i - 1)

ReversedDot == Round(MergeDownFrom(CompAcc(VecSize), VecSize - 1))

\* C6: the merge of partial accumulators is commutative and associative up to
\* rounding, so the dot product does not depend on the order in which the
\* component accumulators are combined: merging any two components in either
\* order, merging any three in either grouping, and merging all of them in the
\* reversed order give the same rounded value as the call returned.
C6_MergeAssocComm ==
    (vPc = "done" /\ vOutcome = "value" /\ VecSize >= 2) =>
        /\ \A i, j \in 1..VecSize :
              Round(PathMerge(CompAcc(i), CompAcc(j)))
                = Round(PathMerge(CompAcc(j), CompAcc(i)))
        /\ \A i, j, l \in 1..VecSize :
              Round(PathMerge(PathMerge(CompAcc(i), CompAcc(j)), CompAcc(l)))
                = Round(PathMerge(CompAcc(i), PathMerge(CompAcc(j), CompAcc(l))))
        /\ vResult = Some(ReversedDot)

\* C6 witness: three components, a positive first and a negative last one, were
\* merged by doDot_superacc
C6_Witness ==
    /\ vPc = "done" /\ vOutcome = "value" /\ vPath = "superacc"
    /\ VecSize = 3
    /\ AccValue(CompAcc(1)) > 0
    /\ AccValue(CompAcc(3)) < 0
    /\ vI = 3

\* C7: a dot product of empty vectors fails with InvalidArgument: it returns
\* no value and reads no accumulator that does not exist.
C7_EmptyIsInvalidArgument ==
    (vPc = "done" /\ VecSize = 0) =>
        /\ vOutcome = "InvalidArgument"
        /\ vResult = NoValue
        /\ ~vOOB

(***************************************************************************)
(* MPI_Matrix::symv( x, y) (mpi_matrix.h): every process of a Cartesian     *)
(* communicator holds a local block of the vector with one layer of ghost  *)
(* cells around it.  The values are small integers, on which double         *)
(* arithmetic is exact.  x_col and x_row (mpi_vector.h) and the Cartesian   *)
(* communicator are modelled after their description: the boundary columns *)
(* (rows) are sent to the two neighbours along the axis and theirs are      *)
(* received into the ghost columns (rows).                                  *)
(***************************************************************************)
GridNx == 2          \* cells of the global grid along x
GridNy == 2          \* cells of the global grid along y
SymvNz == 1          \* x.Nz()
SymvN == 2           \* x.n(), number of polynomial coefficients per direction
MaxSymvProcs == 4    \* largest communicator

StaleGhost == 0 - 1  \* what the ghost cells of x hold before any exchange
StaleOutput == 7     \* what y holds before the call
ConstantInput == 3   \* the value of a constant x
XKinds == {"numbered", "constant"}   \* x numbers the cells or is constant

ProcsX == smDims[1]
ProcsY == smDims[2]
SymvProcs == 1..(ProcsX * ProcsY)
cols == GridNx \div ProcsX + 2     \* x.Nx(), ghost columns included
rows == GridNy \div ProcsY + 2     \* x.Ny(), ghost rows included
LocalSize == SymvNz * rows * SymvN * cols * SymvN
LocalIdx == 0..(LocalSize - 1)

\* x.data()[(((s*rows+i)*n+k)*cols + j)*n + l]
Idx(s, i, kk, j, l) == (((s * rows + i) * SymvN + kk) * cols + j) * SymvN + l
PolyXOf(e) == e % SymvN
ColOf(e) == (e \div SymvN) % cols
PolyYOf(e) == (e \div (SymvN * cols)) % SymvN
RowOf(e) == (e \div (SymvN * cols * SymvN)) % rows
PlaneOf(e) == e \div (SymvN * cols * SymvN * rows)
IsInterior(e) == RowOf(e) \in 1..(rows - 2) /\ ColOf(e) \in 1..(cols - 2)

\* coordinates in the process grid, dimension 0 is x
CoordX(p) == (p - 1) % ProcsX
CoordY(p) == (p - 1) \div ProcsX
RankOf(cx, cy) == cy * ProcsX + cx + 1

\* MPI_Cart_shift along one axis: the coordinate of the neighbour at
\* displacement d, wrapped around on a periodic axis, none (MPI_PROC_NULL)
\* beyond the edge of a non-periodic one
CartShiftMut(c, d, dim, per) ==
    IF 0 <= c + d /\ c + d < dim THEN Some(c + d) ELSE NoValue

CartShift(c, d, dim, per) ==
    IF 0 <= c + d /\ c + d < dim THEN Some(c + d)
    ELSE IF per THEN Some((c + d + dim) % dim)
    ELSE NoValue

NeighbourX(p, d) ==
    LET c == CartShift(CoordX(p), d, ProcsX, smPeriodic[1])
    IN  IF c = NoValue THEN NoValue ELSE Some(RankOf(c[1], CoordY(p)))

NeighbourY(p, d) ==
    LET c == CartShift(CoordY(p), d, ProcsY, smPeriodic[2])
    IN  IF c = NoValue THEN NoValue ELSE Some(RankOf(CoordX(p), c[1]))

\* the local block of process p at the start: interior cells carry the
\* global number of the cell or all the same value, ghost cells are stale
GlobalNumber(s, gy, kk, gx, l) ==
    1 + l + SymvN * (gx + GridNx * (kk + SymvN * (gy + GridNy * s)))

LocalX(p, kind) ==
    [e \in LocalIdx |->
        IF ~IsInterior(e) THEN StaleGhost
        ELSE IF kind = "constant" THEN ConstantInput
        ELSE GlobalNumber(PlaneOf(e),
                          CoordY(p) * (rows - 2) + RowOf(e) - 1,
                          PolyYOf(e),
                          CoordX(p) * (cols - 2) + ColOf(e) - 1,
                          PolyXOf(e))]

\* one column (row) of a local block, and the block with one replaced
GetCol(v, j) ==
    [c \in (0..(SymvNz - 1)) \X (0..(rows - 1)) \X (0..(SymvN - 1))
             \X (0..(SymvN - 1)) |-> v[Idx(c[1], c[2], c[3], j, c[4])]]

SetCol(v, j, d) ==
    [e \in DOMAIN v |->
        IF ColOf(e) = j
        THEN d[<<PlaneOf(e), RowOf(e), PolyYOf(e), PolyXOf(e)>>] ELSE v[e]]

GetRow(v, i) ==
    [c \in (0..(SymvNz - 1)) \X (0..(SymvN - 1)) \X (0..(cols - 1))
             \X (0..(SymvN - 1)) |-> v[Idx(c[1], i, c[2], c[3], c[4])]]

SetRow(v, i, d) ==
    [e \in DOMAIN v |->
        IF RowOf(e) = i
        THEN d[<<PlaneOf(e), PolyYOf(e), ColOf(e), PolyXOf(e)>>] ELSE v[e]]

\* x_col sending its ghost columns instead of its boundary columns
ColMessagesMut(p) ==
    {[axis |-> "x", dst |-> NeighbourX(p, d)[1],
      side |-> IF d < 0 THEN "hi" ELSE "lo",
      data |-> GetCol(smX[p], IF d < 0 THEN 0 ELSE cols - 1)] :
        d \in {d \in {0 - 1, 1} : NeighbourX(p, d) # NoValue}}

\* the messages of x_col (x_row): the first interior column goes to the
\* lower neighbour and fills its upper ghost column, the last interior
\* column goes to the upper neighbour and fills its lower ghost column
ColMessages(p) ==
    {[axis |-> "x", dst |-> NeighbourX(p, d)[1],
      side |-> IF d < 0 THEN "hi" ELSE "lo",
      data |-> GetCol(smX[p], IF d < 0 THEN 1 ELSE cols - 2)] :
        d \in {d \in {0 - 1, 1} : NeighbourX(p, d) # NoValue}}

RowMessages(p) ==
    {[axis |-> "y", dst |-> NeighbourY(p, d)[1],
      side |-> IF d < 0 THEN "hi" ELSE "lo",
      data |-> GetRow(smX[p], IF d < 0 THEN 1 ELSE rows - 2)] :
        d \in {d \in {0 - 1, 1} : NeighbourY(p, d) # NoValue}}

Inbox(p, ax) == {m \in smChan : m.axis = ax /\ m.dst = p}

\* the sides on which p expects a message along the axis
SidesX(p) == {sd \in {"lo", "hi"} :
                NeighbourX(p, IF sd = "lo" THEN 0 - 1 ELSE 1) # NoValue}
SidesY(p) == {sd \in {"lo", "hi"} :
                NeighbourY(p, IF sd = "lo" THEN 0 - 1 ELSE 1) # NoValue}

MessageFrom(box, sd) == CHOOSE m \in box : m.side = sd

ReceiveCols(v, box) ==
    LET lo == IF \E m \in box : m.side = "lo"
              THEN SetCol(v, 0, MessageFrom(box, "lo").data) ELSE v
    IN  IF \E m \in box : m.side = "hi"
        THEN SetCol(lo, cols - 1, MessageFrom(box, "hi").data) ELSE lo

ReceiveRows(v, box) ==
    LET lo == IF \E m \in box : m.side = "lo"
              THEN SetRow(v, 0, MessageFrom(box, "lo").data) ELSE v
    IN  IF \E m \in box : m.side = "hi"
        THEN SetRow(lo, rows - 1, MessageFrom(box, "hi").data) ELSE lo

\* ---- the matrix ----
\* a dense n x n block, stored row by row
Block(c) == [e \in 1..(SymvN * SymvN) |-> c + e - 1]

\* the shapes of matrix the model runs: per block of the line what it
\* holds ("x": dataX_ with an offset to the neighbour cell in x, "x0":
\* dataX_ with offset 0, "y": dataY_ with an offset to the neighbour cell in
\* y, "none": both empty), whether the preconditioner p_ is set and whether
\* boundary terms are
MatrixShapes ==
    { [kinds |-> <<"none", "none">>, precond |-> FALSE, bterms |-> FALSE],
      [kinds |-> <<"x", "x">>,       precond |-> TRUE,  bterms |-> FALSE],
      [kinds |-> <<"y", "y">>,       precond |-> FALSE, bterms |-> TRUE],
      [kinds |-> <<"x", "y">>,       precond |-> TRUE,  bterms |-> TRUE],
      [kinds |-> <<"x0", "none">>,   precond |-> FALSE, bterms |-> FALSE],
      [kinds |-> <<"y", "x">>,       precond |-> FALSE, bterms |-> FALSE] }

\* block m of the line points to the lower neighbour cell for m = 1 and to
\* the upper one otherwise
OffsetOf(kind, m) ==
    LET sgn == IF m = 1 THEN 0 - 1 ELSE 1
    IN  IF kind = "x" THEN sgn * SymvN
        ELSE IF kind = "y" THEN sgn * SymvN * cols * SymvN
        ELSE 0

\* the weights p_.data, when set, have one entry per coefficient of the
\* innermost index (stride = m.data.size() = x.stride)
MatrixOf(sh) ==
    [dataX  |-> [m \in DOMAIN sh.kinds |->
                    IF sh.kinds[m] \in {"x", "x0"} THEN Block(m) ELSE <<>>],
     dataY  |-> [m \in DOMAIN sh.kinds |->
                    IF sh.kinds[m] = "y" THEN Block(m + 2) ELSE <<>>],
     offset |-> [m \in DOMAIN sh.kinds |-> OffsetOf(sh.kinds[m], m)],
     p      |-> IF sh.precond THEN [e \in 1..SymvN |-> 1 + e] ELSE <<>>]

\* BoundaryTerms of a process along an axis the matrix has blocks for: two
\* terms on the first interior column (row) of the processes at the lower
\* edge of the domain, reading that column (row) and the next one
TermsOf(sh, kind, c) ==
    IF sh.bterms /\ c = 0 /\ (\E m \in DOMAIN sh.kinds : sh.kinds[m] = kind)
    THEN [data_ |-> <<Block(5), Block(6)>>, row_ |-> <<0, 0>>,
          col_ |-> <<0, 1>>]
    ELSE [data_ |-> <<>>, row_ |-> <<>>, col_ |-> <<>>]

\* mpi_matrix.h:133-140
UpdateXMut(mat) == \E kk \in 1..Len(mat.dataX) : mat.dataY[kk] # <<>>
UpdateX(mat) == \E kk \in 1..Len(mat.dataX) : mat.dataX[kk] # <<>>
\* updateY set only when every block couples in y
UpdateYMut(mat) == \A kk \in 1..Len(mat.dataX) : mat.dataY[kk] # <<>>
UpdateY(mat) == \E kk \in 1..Len(mat.dataX) : mat.dataY[kk] # <<>>

\* mpi_matrix.h:149-177: y = 0, then every non-empty block accumulates into
\* the interior cells
\* the x block applied to the slice of the cell itself, offset_[m] left out
XBlockTermMut(mat, m, x, e) ==
    IF mat.dataX[m] = <<>> THEN 0
    ELSE SumSeq([q \in 1..SymvN |->
            mat.dataX[m][PolyXOf(e) * SymvN + q]
            * x[e - PolyXOf(e) + (q - 1)]])

XBlockTerm(mat, m, x, e) ==
    IF mat.dataX[m] = <<>> THEN 0
    ELSE SumSeq([q \in 1..SymvN |->
            mat.dataX[m][PolyXOf(e) * SymvN + q]
            * x[e - PolyXOf(e) + (q - 1) + mat.offset[m]]])

YBlockTerm(mat, m, x, e) ==
    IF mat.dataY[m] = <<>> THEN 0
    ELSE SumSeq([pp \in 1..SymvN |->
            mat.dataY[m][PolyYOf(e) * SymvN + pp]
            * x[Idx(PlaneOf(e), RowOf(e), pp - 1, ColOf(e), PolyXOf(e))
                + mat.offset[m]]])

\* the accumulation of lines 151-177 without the zeroing of lines 149-150
LocalApplyMut(mat, x) ==
    [e \in LocalIdx |->
        IF IsInterior(e)
        THEN StaleOutput + SumSeq([m \in 1..Len(mat.dataX) |->
                XBlockTerm(mat, m, x, e) + YBlockTerm(mat, m, x, e)])
        ELSE StaleOutput]

LocalApply(mat, x) ==
    [e \in LocalIdx |->
        IF IsInterior(e)
        THEN SumSeq([m \in 1..Len(mat.dataX) |->
                XBlockTerm(mat, m, x, e) + YBlockTerm(mat, m, x, e)])
        ELSE 0]

\* applyX without the zeroing loop of lines 23-33
applyXMut(t, x, y) ==
    IF t.data_ = <<>> THEN y
    ELSE [e \in LocalIdx |->
            IF RowOf(e) \in 1..(rows - 2)
            THEN y[e] + SumSeq([m \in 1..Len(t.data_) |->
                        IF t.row_[m] + 1 = ColOf(e)
                        THEN SumSeq([q \in 1..SymvN |->
                                t.data_[m][PolyXOf(e) * SymvN + q]
                                * x[Idx(PlaneOf(e), RowOf(e), PolyYOf(e),
                                        t.col_[m] + 1, q - 1)]])
                        ELSE 0])
            ELSE y[e]]

\* BoundaryTerms::applyX, mpi_matrix.h:19-47
applyX(t, x, y) ==
    IF t.data_ = <<>> THEN y
    ELSE [e \in LocalIdx |->
            LET hit == {m \in 1..Len(t.data_) : t.row_[m] + 1 = ColOf(e)}
            IN  IF RowOf(e) \in 1..(rows - 2) /\ hit # {}
                THEN SumSeq([m \in 1..Len(t.data_) |->
                        IF m \in hit
                        THEN SumSeq([q \in 1..SymvN |->
                                t.data_[m][PolyXOf(e) * SymvN + q]
                                * x[Idx(PlaneOf(e), RowOf(e), PolyYOf(e),
                                        t.col_[m] + 1, q - 1)]])
                        ELSE 0])
                ELSE y[e]]

\* BoundaryTerms::applyY, mpi_matrix.h:49-77
applyY(t, x, y) ==
    IF t.data_ = <<>> THEN y
    ELSE [e \in LocalIdx |->
            LET hit == {m \in 1..Len(t.data_) : t.row_[m] + 1 = RowOf(e)}
            IN  IF ColOf(e) \in 1..(cols - 2) /\ hit # {}
                THEN SumSeq([m \in 1..Len(t.data_) |->
                        IF m \in hit
                        THEN SumSeq([pp \in 1..SymvN |->
                                t.data_[m][PolyYOf(e) * SymvN + pp]
                                * x[Idx(PlaneOf(e), t.col_[m] + 1, pp - 1,
                                        ColOf(e), PolyXOf(e))]])
                        ELSE 0])
                ELSE y[e]]

\* a scale by the first weight only
PreconSymvMut(pd, y) == [e \in LocalIdx |-> pd[1] * y[e]]

\* doSymv( p_, y, y, ...): y[i] = p_.data[i%stride]*y[i]
PreconSymv(pd, y) == [e \in LocalIdx |-> pd[(e % Len(pd)) + 1] * y[e]]

\* the statement that follows a phase of symv
PhaseAfterMut(ph) ==
    CASE ph = "apply" -> "yterm"
      [] ph = "yterm" -> "xterm"
      [] ph = "xterm" -> "precond"
      [] ph = "precond" -> "done"

PhaseAfter(ph) ==
    CASE ph = "apply" -> "xterm"
      [] ph = "xterm" -> "yterm"
      [] ph = "yterm" -> "precond"
      [] ph = "precond" -> "done"

ProcGrids ==
    {d \in (1..GridNx) \X (1..GridNy) :
        /\ GridNx % d[1] = 0 /\ GridNy % d[2] = 0
        /\ d[1] * d[2] <= MaxSymvProcs}

InitSymv ==
    /\ CGIdle
    /\ MpiDotIdle
    /\ VecDotIdle
    /\ SymvABIdle
    /\ CollectiveIdle
    /\ SubroutineIdle
    /\ AxpbyIdle
    /\ DriverIdle
    /\ VecSubIdle
    /\ EllipticIdle
    /\ Elliptic3dIdle
    /\ MpiDot2Idle
    /\ DotGridIdle
    /\ smDims \in ProcGrids
    /\ smPeriodic \in BOOLEAN \X BOOLEAN
    /\ \E sh \in MatrixShapes :
        /\ smMat = MatrixOf(sh)
        /\ smXterm = [p \in SymvProcs |-> TermsOf(sh, "x", CoordX(p))]
        /\ smYterm = [p \in SymvProcs |-> TermsOf(sh, "y", CoordY(p))]
        /\ smMat0 = [mat |-> MatrixOf(sh),
                     xterm |-> [p \in SymvProcs |-> TermsOf(sh, "x", CoordX(p))],
                     yterm |-> [p \in SymvProcs |-> TermsOf(sh, "y", CoordY(p))]]
    /\ \E kind \in XKinds :
        /\ smX = [p \in SymvProcs |-> LocalX(p, kind)]
        /\ smX0 = [p \in SymvProcs |-> LocalX(p, kind)]
    /\ smY = [p \in SymvProcs |-> [e \in LocalIdx |-> StaleOutput]]
    /\ smPc = [p \in SymvProcs |-> "start"]
    /\ smChan = {}
    /\ smLog = [p \in SymvProcs |-> <<>>]
    /\ smSent = [p \in SymvProcs |-> <<0, 0>>]

smFixed == <<smDims, smPeriodic, smMat, smXterm, smYterm, smX0, smMat0>>

\* mpi_matrix.h:141-142, if( updateX) x.x_col( comm_): post the columns
SymvXCol(p) ==
    /\ smPc[p] = "start"
    /\ UpdateX(smMat)
    /\ smChan' = smChan \cup ColMessages(p)
    /\ smSent' = [smSent EXCEPT ![p][1] = @ + Cardinality(ColMessages(p))]
    /\ smLog' = [smLog EXCEPT ![p] = Append(@, "exchange_x")]
    /\ smPc' = [smPc EXCEPT ![p] = "x_col"]
    /\ UNCHANGED <<smFixed, smX, smY>>
    /\ UNCHANGED notSymv

\* x_col returns when the columns of both neighbours have arrived
SymvXColRecv(p) ==
    /\ smPc[p] = "x_col"
    /\ \A sd \in SidesX(p) : \E m \in Inbox(p, "x") : m.side = sd
    /\ smX' = [smX EXCEPT ![p] = ReceiveCols(@, Inbox(p, "x"))]
    /\ smChan' = smChan \ Inbox(p, "x")
    /\ smPc' = [smPc EXCEPT ![p] = "decideY"]
    /\ UNCHANGED <<smFixed, smY, smLog, smSent>>
    /\ UNCHANGED notSymv

SymvSkipXCol(p) ==
    /\ smPc[p] = "start"
    /\ ~UpdateX(smMat)
    /\ smPc' = [smPc EXCEPT ![p] = "decideY"]
    /\ UNCHANGED <<smFixed, smX, smY, smChan, smLog, smSent>>
    /\ UNCHANGED notSymv

\* mpi_matrix.h:143-144, if( updateY) x.x_row( comm_)
SymvXRow(p) ==
    /\ smPc[p] = "decideY"
    /\ UpdateY(smMat)
    /\ smChan' = smChan \cup RowMessages(p)
    /\ smSent' = [smSent EXCEPT ![p][2] = @ + Cardinality(RowMessages(p))]
    /\ smLog' = [smLog EXCEPT ![p] = Append(@, "exchange_y")]
    /\ smPc' = [smPc EXCEPT ![p] = "x_row"]
    /\ UNCHANGED <<smFixed, smX, smY>>
    /\ UNCHANGED notSymv

SymvXRowRecv(p) ==
    /\ smPc[p] = "x_row"
    /\ \A sd \in SidesY(p) : \E m \in Inbox(p, "y") : m.side = sd
    /\ smX' = [smX EXCEPT ![p] = ReceiveRows(@, Inbox(p, "y"))]
    /\ smChan' = smChan \ Inbox(p, "y")
    /\ smPc' = [smPc EXCEPT ![p] = "apply"]
    /\ UNCHANGED <<smFixed, smY, smLog, smSent>>
    /\ UNCHANGED notSymv

SymvSkipXRow(p) ==
    /\ smPc[p] = "decideY"
    /\ ~UpdateY(smMat)
    /\ smPc' = [smPc EXCEPT ![p] = "apply"]
    /\ UNCHANGED <<smFixed, smX, smY, smChan, smLog, smSent>>
    /\ UNCHANGED notSymv

\* mpi_matrix.h:148-177
SymvApply(p) ==
    /\ smPc[p] = "apply"
    /\ smY' = [smY EXCEPT ![p] = LocalApply(smMat, smX[p])]
    /\ smLog' = [smLog EXCEPT ![p] = Append(@, "apply")]
    /\ smPc' = [smPc EXCEPT ![p] = PhaseAfter("apply")]
    /\ UNCHANGED <<smFixed, smX, smChan, smSent>>
    /\ UNCHANGED notSymv

\* mpi_matrix.h:178
SymvXterm(p) ==
    /\ smPc[p] = "xterm"
    /\ smY' = [smY EXCEPT ![p] = applyX(smXterm[p], smX[p], @)]
    /\ smLog' = [smLog EXCEPT ![p] = Append(@, "xterm")]
    /\ smPc' = [smPc EXCEPT ![p] = PhaseAfter("xterm")]
    /\ UNCHANGED <<smFixed, smX, smChan, smSent>>
    /\ UNCHANGED notSymv

\* mpi_matrix.h:179
SymvYterm(p) ==
    /\ smPc[p] = "yterm"
    /\ smY' = [smY EXCEPT ![p] = applyY(smYterm[p], smX[p], @)]
    /\ smLog' = [smLog EXCEPT ![p] = Append(@, "yterm")]
    /\ smPc' = [smPc EXCEPT ![p] = PhaseAfter("yterm")]
    /\ UNCHANGED <<smFixed, smX, smChan, smSent>>
    /\ UNCHANGED notSymv

\* mpi_matrix.h:180-181
SymvPrecond(p) ==
    /\ smPc[p] = "precond"
    /\ smMat.p # <<>>
    /\ smY' = [smY EXCEPT ![p] = PreconSymv(smMat.p, @)]
    /\ smLog' = [smLog EXCEPT ![p] = Append(@, "precond")]
    /\ smPc' = [smPc EXCEPT ![p] = PhaseAfter("precond")]
    /\ UNCHANGED <<smFixed, smX, smChan, smSent>>
    /\ UNCHANGED notSymv

SymvReturn(p) ==
    /\ smPc[p] = "precond"
    /\ smMat.p = <<>>
    /\ smPc' = [smPc EXCEPT ![p] = PhaseAfter("precond")]
    /\ UNCHANGED <<smFixed, smX, smY, smChan, smLog, smSent>>
    /\ UNCHANGED notSymv

NextSymv ==
    \E p \in SymvProcs :
        \/ SymvXCol(p)
        \/ SymvXColRecv(p)
        \/ SymvSkipXCol(p)
        \/ SymvXRow(p)
        \/ SymvXRowRecv(p)
        \/ SymvSkipXRow(p)
        \/ SymvApply(p)
        \/ SymvXterm(p)
        \/ SymvYterm(p)
        \/ SymvPrecond(p)
        \/ SymvReturn(p)

SpecSymv == InitSymv /\ [][NextSymv]_vars

(***************************************************************************)
(* Properties of MPI_Matrix::symv                                           *)
(***************************************************************************)
PhaseRank(ph) ==
    CASE ph = "exchange_x" -> 1
      [] ph = "exchange_y" -> 2
      [] ph = "apply" -> 3
      [] ph = "xterm" -> 4
      [] ph = "yterm" -> 5
      [] ph = "precond" -> 6

Logged(p, ph) == \E a \in DOMAIN smLog[p] : smLog[p][a] = ph

\* what symv leaves in y when the phases run in the order of the code
SymvResult(p) ==
    LET applied == LocalApply(smMat, smX[p])
        xdone == applyX(smXterm[p], smX[p], applied)
        ydone == applyY(smYterm[p], smX[p], xdone)
    IN  IF smMat.p # <<>> THEN PreconSymv(smMat.p, ydone) ELSE ydone

\* C8: on every process the phases of one symv call are entered in the
\* order exchange (x, then y), zeroing and local apply, boundary terms in x,
\* boundary terms in y, preconditioner, each at most once; while an exchange
\* is still waiting nothing later has started, the output is untouched until
\* the exchanges are over, and the returned output is what this order of the
\* phases computes.
C8_PhaseOrder ==
    \A p \in SymvProcs :
        /\ \A a, b \in DOMAIN smLog[p] :
              a < b => PhaseRank(smLog[p][a]) < PhaseRank(smLog[p][b])
        /\ smPc[p] = "x_col" => smLog[p][Len(smLog[p])] = "exchange_x"
        /\ smPc[p] = "x_row" => smLog[p][Len(smLog[p])] = "exchange_y"
        /\ smPc[p] \in {"start", "x_col", "decideY", "x_row", "apply"}
              => smY[p] = [e \in LocalIdx |-> StaleOutput]
        /\ smPc[p] = "done"
              => /\ Logged(p, "apply") /\ Logged(p, "xterm")
                 /\ Logged(p, "yterm")
                 /\ smY[p] = SymvResult(p)

C8_Witness ==
    /\ ProcsX * ProcsY > 1
    /\ \E p \in SymvProcs :
        /\ smPc[p] = "done"
        /\ smLog[p] = <<"exchange_x", "exchange_y", "apply", "xterm", "yterm",
                        "precond">>

\* C9: a process exchanges along x exactly when some block of dataX_ is
\* non-empty and along y exactly when some block of dataY_ is non-empty,
\* whatever its rank and whatever x holds; a direction without a non-empty
\* block never has a message sent or in flight.
C9_ExchangeIffBlocks ==
    LET hasX == \E m \in DOMAIN smMat.dataX : smMat.dataX[m] # <<>>
        hasY == \E m \in DOMAIN smMat.dataY : smMat.dataY[m] # <<>>
    IN  \A p \in SymvProcs :
            /\ smPc[p] # "start" => (Logged(p, "exchange_x") <=> hasX)
            /\ smPc[p] \notin {"start", "x_col", "decideY"}
                  => (Logged(p, "exchange_y") <=> hasY)
            /\ ~hasX => /\ smSent[p][1] = 0
                        /\ ~\E m \in smChan : m.axis = "x"
                        /\ ~Logged(p, "exchange_x")
            /\ ~hasY => /\ smSent[p][2] = 0
                        /\ ~\E m \in smChan : m.axis = "y"
                        /\ ~Logged(p, "exchange_y")

C9_Witness ==
    /\ ProcsX * ProcsY > 1
    /\ \E m \in DOMAIN smMat.dataX : smMat.dataX[m] # <<>>
    /\ \A m \in DOMAIN smMat.dataY : smMat.dataY[m] = <<>>
    /\ \E p \in SymvProcs :
        /\ smPc[p] = "done"
        /\ Logged(p, "exchange_x")
        /\ ~Logged(p, "exchange_y")
        /\ smSent[p] = <<2, 0>>

\* the process next to p along an axis, written out from the coordinates
AdjacentX(p, d) ==
    LET cx == CoordX(p) + d
    IN  IF cx < 0 THEN (IF smPeriodic[1]
                        THEN Some(RankOf(ProcsX - 1, CoordY(p))) ELSE NoValue)
        ELSE IF cx > ProcsX - 1
             THEN (IF smPeriodic[1] THEN Some(RankOf(0, CoordY(p)))
                   ELSE NoValue)
        ELSE Some(RankOf(cx, CoordY(p)))

AdjacentY(p, d) ==
    LET cy == CoordY(p) + d
    IN  IF cy < 0 THEN (IF smPeriodic[2]
                        THEN Some(RankOf(CoordX(p), ProcsY - 1)) ELSE NoValue)
        ELSE IF cy > ProcsY - 1
             THEN (IF smPeriodic[2] THEN Some(RankOf(CoordX(p), 0))
                   ELSE NoValue)
        ELSE Some(RankOf(CoordX(p), cy))

\* C10: once a process is past the exchange along an axis, each ghost
\* column (row) of its x holds the adjacent boundary column (row) that the
\* neighbouring process on that side had when symv was called; on a periodic
\* axis the neighbours wrap around, and a process alone on a periodic axis
\* receives its own boundary layers.
C10_GhostsAreNeighbourLayers ==
    \A p \in SymvProcs :
      \A s \in 0..(SymvNz - 1) : \A kk \in 0..(SymvN - 1) :
        \A l \in 0..(SymvN - 1) :
          /\ (smPc[p] \notin {"start", "x_col"} /\ Logged(p, "exchange_x"))
              => \A i \in 1..(rows - 2) :
                  /\ AdjacentX(p, 0 - 1) # NoValue
                      => smX[p][Idx(s, i, kk, 0, l)]
                          = smX0[AdjacentX(p, 0 - 1)[1]]
                                [Idx(s, i, kk, cols - 2, l)]
                  /\ AdjacentX(p, 1) # NoValue
                      => smX[p][Idx(s, i, kk, cols - 1, l)]
                          = smX0[AdjacentX(p, 1)[1]][Idx(s, i, kk, 1, l)]
          /\ (smPc[p] \notin {"start", "x_col", "decideY", "x_row"}
                /\ Logged(p, "exchange_y"))
              => \A j \in 1..(cols - 2) :
                  /\ AdjacentY(p, 0 - 1) # NoValue
                      => smX[p][Idx(s, 0, kk, j, l)]
                          = smX0[AdjacentY(p, 0 - 1)[1]]
                                [Idx(s, rows - 2, kk, j, l)]
                  /\ AdjacentY(p, 1) # NoValue
                      => smX[p][Idx(s, rows - 1, kk, j, l)]
                          = smX0[AdjacentY(p, 1)[1]][Idx(s, 1, kk, j, l)]

\* the last process of a periodic column of processes has received the first
\* row of the first process, and, alone along x, its own columns
C10_Witness ==
    /\ ProcsX = 1 /\ ProcsY > 1
    /\ smPeriodic = <<TRUE, TRUE>>
    /\ LET p == ProcsX * ProcsY
       IN  /\ smPc[p] = "done"
           /\ Logged(p, "exchange_x") /\ Logged(p, "exchange_y")
           /\ smX[p][Idx(0, rows - 1, 0, 1, 0)] = smX0[1][Idx(0, 1, 0, 1, 0)]
           /\ smX[p][Idx(0, rows - 1, 0, 1, 0)] # StaleGhost
           /\ smX[p][Idx(0, 1, 0, 0, 0)] = smX0[p][Idx(0, 1, 0, cols - 2, 0)]
           /\ smX[p][Idx(0, 1, 0, 0, 0)] # StaleGhost

\* the products of the boundary terms that name column (row) c, at entry e
XTermProducts(t, x, e) ==
    LET named == {m \in DOMAIN t.data_ : t.row_[m] + 1 = ColOf(e)}
        prod(m) == SumSeq([q \in 1..SymvN |->
                      t.data_[m][PolyXOf(e) * SymvN + q]
                      * x[Idx(PlaneOf(e), RowOf(e), PolyYOf(e),
                              t.col_[m] + 1, q - 1)]])
    IN  SumSeq([m \in DOMAIN t.data_ |-> IF m \in named THEN prod(m) ELSE 0])

YTermProducts(t, x, e) ==
    LET named == {m \in DOMAIN t.data_ : t.row_[m] + 1 = RowOf(e)}
        prod(m) == SumSeq([pp \in 1..SymvN |->
                      t.data_[m][PolyYOf(e) * SymvN + pp]
                      * x[Idx(PlaneOf(e), t.col_[m] + 1, pp - 1,
                              ColOf(e), PolyXOf(e))]])
    IN  SumSeq([m \in DOMAIN t.data_ |-> IF m \in named THEN prod(m) ELSE 0])

NamedByX(p, e) ==
    \E m \in DOMAIN smXterm[p].data_ : smXterm[p].row_[m] + 1 = ColOf(e)
NamedByY(p, e) ==
    \E m \in DOMAIN smYterm[p].data_ : smYterm[p].row_[m] + 1 = RowOf(e)

\* y after applyX, as C11 states it
AfterXterm(p, e) ==
    IF NamedByX(p, e) THEN XTermProducts(smXterm[p], smX[p], e)
    ELSE LocalApply(smMat, smX[p])[e]

\* C11: after applyX every owned entry of y in a column named by a term of
\* xterm_ holds the sum of the products of the terms naming that column and
\* nothing of what local apply left there, every other entry is as local
\* apply left it; after applyY the same holds for the rows named by yterm_,
\* the other entries being as applyX left them.
C11_BoundaryTermsOverwrite ==
    \A p \in SymvProcs : \A e \in LocalIdx :
        IsInterior(e) =>
            /\ smPc[p] = "yterm" => smY[p][e] = AfterXterm(p, e)
            /\ (smPc[p] = "precond" /\ NamedByY(p, e))
                  => smY[p][e] = YTermProducts(smYterm[p], smX[p], e)
            /\ (smPc[p] = "precond" /\ ~NamedByY(p, e))
                  => smY[p][e] = AfterXterm(p, e)

\* a column named by xterm_ where local apply had left a non-zero value
C11_Witness ==
    \E p \in SymvProcs : \E e \in LocalIdx :
        /\ IsInterior(e)
        /\ smPc[p] = "yterm"
        /\ NamedByX(p, e)
        /\ LocalApply(smMat, smX[p])[e] # 0
        /\ smY[p][e] = XTermProducts(smXterm[p], smX[p], e)
        /\ smY[p][e] # 0
        /\ \E f \in LocalIdx : IsInterior(f) /\ ~NamedByX(p, f)

\* C12: the last step of symv on a process scales every entry y[i], ghost
\* entries included, in place by p_.data[i mod stride] when p_.data is not
\* empty, and this after the boundary terms; when p_.data is empty the
\* output of the boundary terms is returned as it is.
C12_PreconditionerScale ==
    /\ [](\A p \in SymvProcs :
            Logged(p, "precond")
                => /\ smMat.p # <<>>
                   /\ smLog[p][Len(smLog[p])] = "precond"
                   /\ Logged(p, "yterm") /\ Logged(p, "xterm")
                   /\ smPc[p] = "done")
    /\ [][\A p \in SymvProcs :
            (smPc[p] = "precond" /\ smPc'[p] # "precond")
                => /\ smPc'[p] = "done"
                   /\ smMat.p # <<>>
                        => \A i \in LocalIdx :
                             smY'[p][i]
                               = smMat.p[(i % Len(smMat.p)) + 1] * smY[p][i]
                   /\ smMat.p = <<>> => smY'[p] = smY[p]]_vars

\* a scaled output whose entries were scaled by different weights
C12_Witness ==
    \E p \in SymvProcs : \E i, j \in LocalIdx :
        /\ smPc[p] = "done" /\ Logged(p, "precond")
        /\ smY[p][i] # 0 /\ smY[p][j] # 0
        /\ i % Len(smMat.p) # j % Len(smMat.p)
        /\ smMat.p[(i % Len(smMat.p)) + 1] # smMat.p[(j % Len(smMat.p)) + 1]

(***************************************************************************)
(* doSymv( alpha, m, x, beta, y) for a diagonal matrix m: the loop over the *)
(* components of a vector of vectors (std_matrix_blas.cuh:35-53) around the *)
(* kernel for one component (mpi_precon_blas.h:33-63).  The values are      *)
(* small integers, on which double arithmetic is exact.                     *)
(***************************************************************************)
MaxABComps == 2      \* largest number of component vectors
ABLen == 2           \* x.data.size() of a component
ABScalars == {0 - 1, 0, 1, 2}
ABValues == {0 - 1, 2}
ABWeights == {m \in {<<2>>, <<2, 3>>, <<1, 2, 3>>} : ABLen % Len(m) = 0}

\* blas1::detail::doAxpby( a, x, b, y): y = a*x + b*y
doAxpby(a, x, b, y) == [i \in DOMAIN y |-> a * x[i] + b * y[i]]

\* the loop of mpi_precon_blas.h:54-62 with the term beta*y[i] left out
PreconLoopMut(alpha, m, x, beta, y) ==
    [i \in DOMAIN y |-> alpha * m[((i - 1) % Len(m)) + 1] * x[i]]

\* mpi_precon_blas.h:54-62: y[i] = alpha*m.data[i%stride]*x[i] + beta*y[i]
PreconLoop(alpha, m, x, beta, y) ==
    [i \in DOMAIN y |->
        alpha * m[((i - 1) % Len(m)) + 1] * x[i] + beta * y[i]]

InitSymvAB ==
    /\ CGIdle
    /\ MpiDotIdle
    /\ VecDotIdle
    /\ SymvIdle
    /\ CollectiveIdle
    /\ SubroutineIdle
    /\ AxpbyIdle
    /\ DriverIdle
    /\ VecSubIdle
    /\ EllipticIdle
    /\ Elliptic3dIdle
    /\ MpiDot2Idle
    /\ DotGridIdle
    /\ abAlpha \in ABScalars
    /\ abBeta \in ABScalars
    /\ abM \in ABWeights
    /\ \E nc \in 0..MaxABComps :
        /\ abX \in [1..nc -> [1..ABLen -> ABValues]]
        /\ abY = [c \in 1..nc |-> [i \in 1..ABLen |-> 3 * c + i]]
        /\ abY0 = [c \in 1..nc |-> [i \in 1..ABLen |-> 3 * c + i]]
    /\ abI = 0
    /\ abPc = "loop"

\* mpi_precon_blas.h:46-49: alpha == 0 and beta == 1, nothing to do
SymvABNothing ==
    /\ abPc = "loop" /\ abI < Len(abX)
    /\ abAlpha = 0 /\ abBeta = 1
    /\ abI' = abI + 1
    /\ UNCHANGED <<abAlpha, abBeta, abM, abX, abY, abY0, abPc>>
    /\ UNCHANGED notSymvAB

\* mpi_precon_blas.h:46-52: alpha == 0, y is scaled by beta
SymvABScale ==
    /\ abPc = "loop" /\ abI < Len(abX)
    /\ abAlpha = 0 /\ abBeta # 1
    /\ abY' = [abY EXCEPT ![abI + 1] = doAxpby(0, abX[abI + 1], abBeta, @)]
    /\ abI' = abI + 1
    /\ UNCHANGED <<abAlpha, abBeta, abM, abX, abY0, abPc>>
    /\ UNCHANGED notSymvAB

\* mpi_precon_blas.h:53-62
SymvABLoop ==
    /\ abPc = "loop" /\ abI < Len(abX)
    /\ abAlpha # 0
    /\ abY' = [abY EXCEPT ![abI + 1] =
                  PreconLoop(abAlpha, abM, abX[abI + 1], abBeta, @)]
    /\ abI' = abI + 1
    /\ UNCHANGED <<abAlpha, abBeta, abM, abX, abY0, abPc>>
    /\ UNCHANGED notSymvAB

\* std_matrix_blas.cuh:49: i == x.size()
SymvABReturn ==
    /\ abPc = "loop" /\ abI = Len(abX)
    /\ abPc' = "done"
    /\ UNCHANGED <<abAlpha, abBeta, abM, abX, abY, abY0, abI>>
    /\ UNCHANGED notSymvAB

NextSymvAB == SymvABNothing \/ SymvABScale \/ SymvABLoop \/ SymvABReturn

SpecSymvAB == InitSymvAB /\ [][NextSymvAB]_vars

\* C13: when doSymv( alpha, m, x, beta, y) returns, every entry of every
\* component of y is alpha*m[i mod stride]*x[i] + beta*y_old[i], on the
\* shortcut paths for alpha == 0 as on the general one; during the call the
\* components already done hold this value, the others still hold y_old,
\* and x is not changed.
C13_SymvAlphaBeta ==
    /\ [](\A c \in DOMAIN abY : \A i \in DOMAIN abY[c] :
            abY[c][i] = IF c <= abI
                        THEN abAlpha * abM[((i - 1) % Len(abM)) + 1]
                                * abX[c][i] + abBeta * abY0[c][i]
                        ELSE abY0[c][i])
    /\ [](abPc = "done" => abI = Len(abX))
    /\ [][abX' = abX]_vars

\* the shortcut that scales y by beta, on a vector of two components
C13_Witness ==
    /\ abPc = "done" /\ Len(abX) = 2
    /\ abAlpha = 0 /\ abBeta = 2
    /\ Len(abM) = 2
    /\ abY # abY0

(***************************************************************************)
(* The collective calls of a group of processes: every process makes its   *)
(* own sequence of calls of MPI_Matrix::symv (mpi_matrix.h:129-144, the     *)
(* exchanges x_col and x_row) and of doDot (mpi_precon_blas.h:16-25, the    *)
(* MPI_Allreduce).  The content of the boundary layers plays no part here,  *)
(* a posted layer is counted per receiver, axis and side.                   *)
(***************************************************************************)
MaxCalls == 2        \* longest sequence of calls all processes agree on
CoMaxDim == 2        \* most processes along one axis
CoMaxProcs == 4      \* largest communicator

CoOps == {"symv", "dot"}
CoPrograms == UNION {[1..len -> CoOps] : len \in 0..MaxCalls}

\* what one process may do instead of the common sequence b: leave out the
\* last call, make one more call, or make the first two in the other order
CoVariants(b) ==
    ({b \o <<"symv">>, b \o <<"dot">>}
       \cup (IF Len(b) > 0 THEN {SubSeq(b, 1, Len(b) - 1)} ELSE {})
       \cup (IF Len(b) > 1
             THEN {<<b[2], b[1]>> \o SubSeq(b, 3, Len(b))} ELSE {}))
    \ {b}

CoProcs == 1..(coDims[1] * coDims[2])
CoCoord(p, ax) == IF ax = 1 THEN (p - 1) % coDims[1]
                  ELSE (p - 1) \div coDims[1]

\* the rank of the neighbour of p at displacement d along axis ax, if any
CoNeighbour(p, ax, d) ==
    LET c == CartShift(CoCoord(p, ax), d, coDims[ax], coPeriodic[ax])
    IN  IF c = NoValue THEN NoValue
        ELSE IF ax = 1 THEN Some(c[1] + coDims[1] * CoCoord(p, 2) + 1)
        ELSE Some(CoCoord(p, 1) + coDims[1] * c[1] + 1)

CoSides == {"lo", "hi"}
CoShiftOf(sd) == IF sd = "lo" THEN 0 - 1 ELSE 1
CoOpposite(sd) == IF sd = "lo" THEN "hi" ELSE "lo"
CoHaloKeys == CoProcs \X {1, 2} \X CoSides

\* the partial sum of process p in its r-th dot
CoTemp(p, r) == p + r

\* an exchange that posts nothing
CoPostMut(halo, p, ax) == halo

\* the boundary layers p posts along ax: one into the ghost layer of each
\* neighbour, on the side facing p
CoPost(halo, p, ax) ==
    [key \in CoHaloKeys |->
        halo[key]
        + IF /\ key[2] = ax
             /\ CoNeighbour(p, ax, CoShiftOf(CoOpposite(key[3])))
                    = Some(key[1])
          THEN 1 ELSE 0]

\* the sides on which p receives along ax
CoExpected(p, ax) ==
    {sd \in CoSides : CoNeighbour(p, ax, CoShiftOf(sd)) # NoValue}

\* a receive that returns without waiting for the layer
CoArrivedMut(p, ax) == TRUE

\* the blocking receives of p along ax can all complete
CoArrived(p, ax) == \A sd \in CoExpected(p, ax) : coHalo[<<p, ax, sd>>] > 0

CoReceive(halo, p, ax) ==
    [key \in CoHaloKeys |->
        IF key[1] = p /\ key[2] = ax /\ key[3] \in CoExpected(p, ax)
        THEN halo[key] - 1 ELSE halo[key]]

\* an MPI_Allreduce that returns without waiting for the others
CoAllContributedMut(p) == TRUE

\* every process has entered the MPI_Allreduce that p is in
CoAllContributed(p) == \A q \in CoProcs : Len(coSent[q]) >= Len(coSent[p])

\* MPI_SUM over the partial sums of round r that have been contributed;
\* they are small integers, which doubles add exactly
CoReduce(r) ==
    LET given == SelectSeq([q \in CoProcs |->
                              IF Len(coSent[q]) >= r THEN Some(coSent[q][r])
                              ELSE NoValue],
                           LAMBDA v : v # NoValue)
    IN  SumSeq([i \in 1..Len(given) |-> given[i][1]])

CoCurrent(p) == IF coCall[p] <= Len(coProg[p]) THEN coProg[p][coCall[p]]
                ELSE "none"

CoGrids ==
    {d \in (1..CoMaxDim) \X (1..CoMaxDim) : d[1] * d[2] <= CoMaxProcs}

\* all processes make the calls of base, except that process d, one of the
\* first two if any, makes those of a variant
InitCollective ==
    /\ CGIdle
    /\ MpiDotIdle
    /\ VecDotIdle
    /\ SymvIdle
    /\ SymvABIdle
    /\ SubroutineIdle
    /\ AxpbyIdle
    /\ DriverIdle
    /\ VecSubIdle
    /\ EllipticIdle
    /\ Elliptic3dIdle
    /\ MpiDot2Idle
    /\ DotGridIdle
    /\ coDims \in CoGrids
    /\ coPeriodic \in {<<TRUE, TRUE>>, <<FALSE, FALSE>>}
    /\ coUpdate \in {<<TRUE, TRUE>>, <<TRUE, FALSE>>, <<FALSE, FALSE>>}
    /\ \E base \in CoPrograms : \E d \in {d \in 0..2 : d <= coDims[1] * coDims[2]} :
         \E alt \in (IF d = 0 THEN {base} ELSE CoVariants(base)) :
            coProg = [p \in CoProcs |-> IF p = d THEN alt ELSE base]
    /\ coCall = [p \in CoProcs |-> 1]
    /\ coPc = [p \in CoProcs |-> "call"]
    /\ coHalo = [key \in CoHaloKeys |-> 0]
    /\ coPosted = [p \in CoProcs |-> <<0, 0>>]
    /\ coPassed = [p \in CoProcs |-> <<0, 0>>]
    /\ coSent = [p \in CoProcs |-> <<>>]
    /\ coDotRet = [p \in CoProcs |-> <<>>]

coFixed == <<coDims, coPeriodic, coUpdate, coProg>>

\* symv, mpi_matrix.h:141-142: x_col posts the boundary columns
CoSymvXCol(p) ==
    /\ coPc[p] = "call" /\ CoCurrent(p) = "symv"
    /\ coUpdate[1]
    /\ coHalo' = CoPost(coHalo, p, 1)
    /\ coPosted' = [coPosted EXCEPT ![p][1] = @ + 1]
    /\ coPc' = [coPc EXCEPT ![p] = "x_col"]
    /\ UNCHANGED <<coFixed, coCall, coPassed, coSent, coDotRet>>
    /\ UNCHANGED notCollective

\* x_col returns when the columns of the neighbours are there
CoSymvXColRecv(p) ==
    /\ coPc[p] = "x_col"
    /\ CoArrived(p, 1)
    /\ coHalo' = CoReceive(coHalo, p, 1)
    /\ coPassed' = [coPassed EXCEPT ![p][1] = @ + 1]
    /\ coPc' = [coPc EXCEPT ![p] = "decideY"]
    /\ UNCHANGED <<coFixed, coCall, coPosted, coSent, coDotRet>>
    /\ UNCHANGED notCollective

CoSymvSkipXCol(p) ==
    /\ coPc[p] = "call" /\ CoCurrent(p) = "symv"
    /\ ~coUpdate[1]
    /\ coPc' = [coPc EXCEPT ![p] = "decideY"]
    /\ UNCHANGED <<coFixed, coCall, coHalo, coPosted, coPassed, coSent,
                   coDotRet>>
    /\ UNCHANGED notCollective

\* symv, mpi_matrix.h:143-144: x_row posts the boundary rows
CoSymvXRow(p) ==
    /\ coPc[p] = "decideY"
    /\ coUpdate[2]
    /\ coHalo' = CoPost(coHalo, p, 2)
    /\ coPosted' = [coPosted EXCEPT ![p][2] = @ + 1]
    /\ coPc' = [coPc EXCEPT ![p] = "x_row"]
    /\ UNCHANGED <<coFixed, coCall, coPassed, coSent, coDotRet>>
    /\ UNCHANGED notCollective

\* x_row returns; the rest of symv is local and symv returns
CoSymvXRowRecv(p) ==
    /\ coPc[p] = "x_row"
    /\ CoArrived(p, 2)
    /\ coHalo' = CoReceive(coHalo, p, 2)
    /\ coPassed' = [coPassed EXCEPT ![p][2] = @ + 1]
    /\ coPc' = [coPc EXCEPT ![p] = "call"]
    /\ coCall' = [coCall EXCEPT ![p] = @ + 1]
    /\ UNCHANGED <<coFixed, coPosted, coSent, coDotRet>>
    /\ UNCHANGED notCollective

CoSymvSkipXRow(p) ==
    /\ coPc[p] = "decideY"
    /\ ~coUpdate[2]
    /\ coPc' = [coPc EXCEPT ![p] = "call"]
    /\ coCall' = [coCall EXCEPT ![p] = @ + 1]
    /\ UNCHANGED <<coFixed, coHalo, coPosted, coPassed, coSent, coDotRet>>
    /\ UNCHANGED notCollective

\* doDot, mpi_precon_blas.h:16-23: the local loops, then MPI_Allreduce is
\* entered with the partial sum
CoDotContribute(p) ==
    /\ coPc[p] = "call" /\ CoCurrent(p) = "dot"
    /\ coSent' = [coSent EXCEPT ![p] = Append(@, CoTemp(p, Len(@) + 1))]
    /\ coPc' = [coPc EXCEPT ![p] = "allreduce"]
    /\ UNCHANGED <<coFixed, coCall, coHalo, coPosted, coPassed, coDotRet>>
    /\ UNCHANGED notCollective

\* doDot, mpi_precon_blas.h:23-25: MPI_Allreduce returns, doDot returns sum
CoDotReturn(p) ==
    /\ coPc[p] = "allreduce"
    /\ CoAllContributed(p)
    /\ coDotRet' = [coDotRet EXCEPT ![p] = Append(@, CoReduce(Len(coSent[p])))]
    /\ coPc' = [coPc EXCEPT ![p] = "call"]
    /\ coCall' = [coCall EXCEPT ![p] = @ + 1]
    /\ UNCHANGED <<coFixed, coHalo, coPosted, coPassed, coSent>>
    /\ UNCHANGED notCollective

NextCollective ==
    \E p \in CoProcs :
        \/ CoSymvXCol(p)
        \/ CoSymvXColRecv(p)
        \/ CoSymvSkipXCol(p)
        \/ CoSymvXRow(p)
        \/ CoSymvXRowRecv(p)
        \/ CoSymvSkipXRow(p)
        \/ CoDotContribute(p)
        \/ CoDotReturn(p)

SpecCollective == InitCollective /\ [][NextCollective]_vars

\* every process runs whenever it can take a step
SpecCollectiveFair ==
    InitCollective /\ [][NextCollective]_vars /\ WF_vars(NextCollective)

(***************************************************************************)
(* Properties of the collective calls                                       *)
(***************************************************************************)
CoAllDone == \A p \in CoProcs : coCall[p] > Len(coProg[p])

CoBlocked(p) ==
    \/ coPc[p] = "x_col" /\ ~CoArrived(p, 1)
    \/ coPc[p] = "x_row" /\ ~CoArrived(p, 2)
    \/ coPc[p] = "allreduce" /\ ~CoAllContributed(p)

\* C14: a dot call has returned on a process only if every process of the
\* group has given its partial sum of that round to the all-reduce, the
\* value returned is the sum of all of them and so the same on all
\* processes; a process has left an exchange along an axis only if each of
\* its neighbours along that axis has posted its boundary layers of that
\* exchange.
C14_CollectivesWaitForPartners ==
    \A p \in CoProcs :
        /\ \A r \in 1..Len(coDotRet[p]) :
              /\ \A q \in CoProcs : Len(coSent[q]) >= r
              /\ coDotRet[p][r] = SumSeq([q \in CoProcs |-> CoTemp(q, r)])
              /\ \A q \in CoProcs :
                    r <= Len(coDotRet[q]) => coDotRet[q][r] = coDotRet[p][r]
        /\ \A ax \in {1, 2} : \A d \in {0 - 1, 1} :
              CoNeighbour(p, ax, d) # NoValue
                  => coPassed[p][ax] <= coPosted[CoNeighbour(p, ax, d)[1]][ax]

\* four processes have each left both exchanges of a symv and a dot
C14_Witness ==
    /\ coDims = <<2, 2>>
    /\ \A p \in CoProcs :
        /\ coPassed[p] = <<1, 1>>
        /\ Len(coDotRet[p]) = 1
        /\ coCall[p] > Len(coProg[p])

CoSamePrograms == \A p, q \in CoProcs : coProg[p] = coProg[q]

\* C15: when all processes make the same calls in the same order, every
\* call returns on every process, on every process grid and with periodic
\* axes as without; until then some process can always take a step.
C15_EvenCallsReturn ==
    CoSamePrograms
        => /\ <>CoAllDone
           /\ [](CoAllDone \/ ENABLED NextCollective)

C15_Witness ==
    /\ CoSamePrograms /\ CoAllDone
    /\ coDims = <<2, 2>> /\ coPeriodic = <<TRUE, TRUE>>
    /\ coUpdate = <<TRUE, TRUE>>
    /\ \A p \in CoProcs : coProg[p] = <<"symv", "dot">>

\* q takes part in the exchanges of a symv call of p
CoPartner(p, q) ==
    \E ax \in {1, 2} : \E d \in {0 - 1, 1} :
        coUpdate[ax] /\ CoNeighbour(p, ax, d) = Some(q)

\* the calls of p in which it communicates with q
CoCallsWith(p, q) ==
    SelectSeq(coProg[p], LAMBDA op : op = "dot" \/ CoPartner(p, q))

\* some process makes a call with a partner that the partner does not make
\* at the same place of its own sequence
CoUneven ==
    \E p, q \in CoProcs : p # q /\ CoCallsWith(p, q) # CoCallsWith(q, p)

\* C16: when two processes that communicate in a call do not make these
\* calls the same number of times in the same order, the calls never all
\* return, and from some time on a process is blocked in a call for ever.
C16_UnevenCallsDeadlock ==
    CoUneven
        => /\ []~CoAllDone
           /\ <>[](\E p \in CoProcs : CoBlocked(p))

\* the group is stuck: a process is blocked and no process can take a step
C16_Witness ==
    /\ CoUneven
    /\ \E p \in CoProcs : CoBlocked(p)
    /\ \A p \in CoProcs : CoBlocked(p) \/ coCall[p] > Len(coProg[p])
    /\ \E p, q \in CoProcs :
          /\ Len(coProg[p]) = Len(coProg[q]) /\ coProg[p] # coProg[q]

\* ---- the product on the global grid, whatever the process grid ----
\* global cell of an owned local entry
GlobalCol(p, e) == CoordX(p) * (cols - 2) + ColOf(e) - 1
GlobalRow(p, e) == CoordY(p) * (rows - 2) + RowOf(e) - 1

\* the global input vector at cell (gx, gy), put together from the blocks
\* the processes own; beyond the edge of the domain the cell on the other
\* side on a periodic axis, the stale ghost value otherwise
GlobalInput(s, gy, kk, gx, l) ==
    LET wx == IF smPeriodic[1] THEN (gx + GridNx) % GridNx ELSE gx
        wy == IF smPeriodic[2] THEN (gy + GridNy) % GridNy ELSE gy
    IN  IF wx \in 0..(GridNx - 1) /\ wy \in 0..(GridNy - 1)
        THEN smX0[RankOf(wx \div (cols - 2), wy \div (rows - 2))]
                 [Idx(s, (wy % (rows - 2)) + 1, kk, (wx % (cols - 2)) + 1, l)]
        ELSE StaleGhost

\* the blocks of the matrix applied at a global cell
GlobalBlocks(s, gy, kk, gx, l) ==
    SumSeq([m \in 1..Len(smMat.dataX) |->
        (IF smMat.dataX[m] = <<>> THEN 0
         ELSE SumSeq([q \in 1..SymvN |->
                 smMat.dataX[m][l * SymvN + q]
                 * GlobalInput(s, gy, kk, gx + smMat.offset[m] \div SymvN,
                               q - 1)]))
        + (IF smMat.dataY[m] = <<>> THEN 0
           ELSE SumSeq([pp \in 1..SymvN |->
                   smMat.dataY[m][kk * SymvN + pp]
                   * GlobalInput(s,
                                 gy + smMat.offset[m]
                                        \div (SymvN * cols * SymvN),
                                 pp - 1, gx, l)]))])

\* the boundary terms held by the processes at the lower edges name global
\* columns (rows)
GlobalXterm(gy) == smXterm[RankOf(0, gy \div (rows - 2))]
GlobalYterm(gx) == smYterm[RankOf(gx \div (cols - 2), 0)]

GlobalResult(s, gy, kk, gx, l) ==
    LET xt == GlobalXterm(gy)
        yt == GlobalYterm(gx)
        xnamed == {m \in DOMAIN xt.data_ : xt.row_[m] = gx}
        ynamed == {m \in DOMAIN yt.data_ : yt.row_[m] = gy}
        afterX ==
            IF xnamed = {} THEN GlobalBlocks(s, gy, kk, gx, l)
            ELSE SumSeq([m \in DOMAIN xt.data_ |->
                    IF m \in xnamed
                    THEN SumSeq([q \in 1..SymvN |->
                            xt.data_[m][l * SymvN + q]
                            * GlobalInput(s, gy, kk, xt.col_[m], q - 1)])
                    ELSE 0])
        afterY ==
            IF ynamed = {} THEN afterX
            ELSE SumSeq([m \in DOMAIN yt.data_ |->
                    IF m \in ynamed
                    THEN SumSeq([pp \in 1..SymvN |->
                            yt.data_[m][kk * SymvN + pp]
                            * GlobalInput(s, yt.col_[m], pp - 1, gx, l)])
                    ELSE 0])
    IN  IF smMat.p # <<>> THEN smMat.p[(l % Len(smMat.p)) + 1] * afterY
        ELSE afterY

\* C17: for the same global grid, matrix and input, every owned entry of
\* the output of symv is the value of the product on the global grid at
\* its global cell, a value that does not depend on the process grid; so
\* the runs on 1x1 and on 2x2 processes (and on 2x1 and 1x2) give the same
\* global output.
C17_DecompositionInvariant ==
    \A p \in SymvProcs :
        smPc[p] = "done"
            => \A e \in LocalIdx :
                 IsInterior(e)
                    => smY[p][e] = GlobalResult(PlaneOf(e), GlobalRow(p, e),
                                                PolyYOf(e), GlobalCol(p, e),
                                                PolyXOf(e))

\* four processes are done with a matrix that couples in x and in y
C17_Witness ==
    /\ smDims = <<GridNx, GridNy>>
    /\ smPeriodic = <<TRUE, TRUE>>
    /\ \A p \in SymvProcs :
        /\ smPc[p] = "done"
        /\ Logged(p, "exchange_x") /\ Logged(p, "exchange_y")
        /\ \E e \in LocalIdx : IsInterior(e) /\ smY[p][e] # 0

\* the sum of the coefficients that the matrix applies to the entry with
\* polynomial indices (kk, l): those of its blocks, times the weight of the
\* entry when the matrix carries weights
StencilSum(kk, l) ==
    (IF smMat.p = <<>> THEN 1 ELSE smMat.p[(l % Len(smMat.p)) + 1])
    * SumSeq([m \in 1..Len(smMat.dataX) |->
        (IF smMat.dataX[m] = <<>> THEN 0
         ELSE SumSeq([q \in 1..SymvN |-> smMat.dataX[m][l * SymvN + q]]))
        + (IF smMat.dataY[m] = <<>> THEN 0
           ELSE SumSeq([pp \in 1..SymvN |-> smMat.dataY[m][kk * SymvN + pp]]))])

\* all owned entries of the input are the same
ConstantX ==
    \A p \in SymvProcs : \A e \in LocalIdx :
        IsInterior(e) => smX0[p][e] = smX0[1][Idx(0, 1, 0, 1, 0)]

NoBoundaryTerms ==
    \A p \in SymvProcs : smXterm[p].data_ = <<>> /\ smYterm[p].data_ = <<>>

\* C18: with both axes periodic, no boundary terms and a constant input,
\* symv leaves in every owned entry, next to a process boundary or to the
\* edge of the domain as elsewhere, the constant times the sum of the
\* stencil coefficients of that entry.
C18_ConstantVectorStencilSum ==
    (smPeriodic = <<TRUE, TRUE>> /\ NoBoundaryTerms /\ ConstantX)
        => \A p \in SymvProcs :
             smPc[p] = "done"
                => \A e \in LocalIdx :
                     IsInterior(e)
                        => smY[p][e]
                            = smX0[1][Idx(0, 1, 0, 1, 0)]
                              * StencilSum(PolyYOf(e), PolyXOf(e))

\* a matrix coupling in x and in y on more than one process, every owned
\* cell of which is next to a process boundary
C18_Witness ==
    /\ smPeriodic = <<TRUE, TRUE>> /\ NoBoundaryTerms /\ ConstantX
    /\ smDims = <<GridNx, GridNy>>
    /\ smX0[1][Idx(0, 1, 0, 1, 0)] # 0
    /\ \A p \in SymvProcs :
        /\ smPc[p] = "done"
        /\ Logged(p, "exchange_x") /\ Logged(p, "exchange_y")
        /\ smY[p][Idx(0, 1, 0, 1, 0)] # 0

\* the matrix as symv holds it
MatrixNow == [mat |-> smMat, xterm |-> smXterm, yterm |-> smYterm]

\* the owned entries of the output are the product of the matrix and the
\* input as they were when symv was called
ResultFromInputs(p) ==
    \A e \in LocalIdx :
        IsInterior(e)
            => smY[p][e] = GlobalResult(PlaneOf(e), GlobalRow(p, e), PolyYOf(e),
                                        GlobalCol(p, e), PolyXOf(e))

\* C19 as stated: after symv( x, y) every entry of x, ghost layers included,
\* and the matrix (blocks, offsets, boundary terms, preconditioner) are what
\* they were before the call, and the result depends only on the inputs.
C19_NoSideEffectOnInput ==
    \A p \in SymvProcs :
        smPc[p] = "done"
            => /\ smX[p] = smX0[p]
               /\ MatrixNow = smMat0
               /\ ResultFromInputs(p)

\* C19 as amended: symv never changes an owned entry of x nor the matrix,
\* and the result depends only on the inputs; of x it changes ghost entries
\* only, those of the columns when it has exchanged along x and those of
\* the rows when it has exchanged along y.
C19_OnlyGhostLayersOfInputChange ==
    \A p \in SymvProcs :
        /\ MatrixNow = smMat0
        /\ \A e \in LocalIdx :
            /\ IsInterior(e) => smX[p][e] = smX0[p][e]
            /\ smX[p][e] # smX0[p][e]
                => \/ ColOf(e) \in {0, cols - 1} /\ Logged(p, "exchange_x")
                   \/ RowOf(e) \in {0, rows - 1} /\ Logged(p, "exchange_y")
        /\ smPc[p] = "done" => ResultFromInputs(p)

\* every process has returned from a symv that has overwritten ghost
\* columns and ghost rows of its x
C19_Witness ==
    /\ ProcsX * ProcsY > 1
    /\ \A p \in SymvProcs :
        /\ smPc[p] = "done"
        /\ smX[p][Idx(0, 1, 0, 0, 0)] # smX0[p][Idx(0, 1, 0, 0, 0)]
        /\ smX[p][Idx(0, 0, 0, 1, 0)] # smX0[p][Idx(0, 0, 0, 1, 0)]
        /\ \E e \in LocalIdx : IsInterior(e) /\ smY[p][e] # 0

(***************************************************************************)
(* The multi-threaded dispatch of an elementwise subroutine on a vector of *)
(* vectors: doSubroutine_dispatch( VectorVectorTag, OmpTag, ...),          *)
(* filter.h:1201-1220. Every thread of the team runs the loop over the     *)
(* components and calls dg::blas1::subroutine on each; the dispatch of the *)
(* component (blas1_dispatch_shared.h) shares the elements of the          *)
(* component among the threads of the team in contiguous ranges, without a *)
(* barrier at the end of a component.                                      *)
(***************************************************************************)
MaxThreads == 3      \* threads of a team
MaxSrComps == 2      \* component vectors
SrLen == 3           \* elements of a component vector

SrThreads == 1..MaxThreads

\* the elementwise subroutine f
SrF(v) == 2 * v + 1

\* omp_in_parallel(): the caller runs in an active parallel region
omp_in_parallel == srEnclosing > 1

\* a dispatch that opens a region wherever it is called
OpensRegionMut == TRUE

\* filter.h:1207, if( !omp_in_parallel())
OpensRegion == ~omp_in_parallel

\* the threads that call the dispatch: the one thread of serial code, or
\* every thread of the enclosing region
SrCallers == IF srEnclosing = 0 THEN {1} ELSE 1..srEnclosing

\* the ways to cut 0..SrLen-1 into w contiguous ranges, empty ones allowed
SrPartitions(w) ==
    {c \in [1..(w + 1) -> 0..SrLen] :
        /\ c[1] = 0 /\ c[w + 1] = SrLen
        /\ \A a \in 1..w : c[a] <= c[a + 1]}

\* the team opened by #pragma omp parallel (line 1209) on thread t: the
\* threads of a new region, or, inside an active region, thread t alone
SrNewTeam(t) == IF omp_in_parallel THEN {t} ELSE 1..srTeam

\* the range of thread t in the worksharing loop over a component
SrRankIn(t) == Cardinality({u \in srBound[t] : u <= t})
SrFirst(t) ==
    IF Cardinality(srBound[t]) = 1 THEN 0 ELSE srCuts[SrRankIn(t)]
SrEnd(t) ==
    IF Cardinality(srBound[t]) = 1 THEN SrLen ELSE srCuts[SrRankIn(t) + 1]
SrRange(t) == {j \in 0..(SrLen - 1) : SrFirst(t) <= j /\ j < SrEnd(t)}

InitSubroutine ==
    /\ CGIdle
    /\ MpiDotIdle
    /\ VecDotIdle
    /\ SymvIdle
    /\ SymvABIdle
    /\ CollectiveIdle
    /\ AxpbyIdle
    /\ DriverIdle
    /\ VecSubIdle
    /\ EllipticIdle
    /\ Elliptic3dIdle
    /\ MpiDot2Idle
    /\ DotGridIdle
    /\ srEnclosing \in 0..MaxThreads
    /\ srTeam \in (IF srEnclosing > 1 THEN {1} ELSE 1..MaxThreads)
    /\ srSize \in 0..MaxSrComps
    /\ srCuts \in SrPartitions(IF srEnclosing > 1 THEN srEnclosing
                                ELSE srTeam)
    /\ srX = [i \in 1..srSize |-> [j \in 0..(SrLen - 1) |-> 10 * i + j]]
    /\ srX0 = [i \in 1..srSize |-> [j \in 0..(SrLen - 1) |-> 10 * i + j]]
    /\ srApplied = [i \in 1..srSize |-> [j \in 0..(SrLen - 1) |-> 0]]
    /\ srWriters = [i \in 1..srSize |-> [j \in 0..(SrLen - 1) |-> {}]]
    /\ srPc = [t \in SrThreads |->
                IF t \in SrCallers THEN "call" ELSE "none"]
    /\ srBound = [t \in SrThreads |-> {}]
    /\ srOpener = [t \in SrThreads |-> 0]
    /\ srI = [t \in SrThreads |-> 0]
    /\ srJ = [t \in SrThreads |-> 0]

srFixed == <<srEnclosing, srTeam, srSize, srCuts, srX0>>

\* lines 1207-1210: not in a parallel region, thread t opens one; every
\* thread of its team starts the loop over the components
SrOpenRegion(t) ==
    /\ srPc[t] = "call"
    /\ OpensRegion
    /\ srPc' = [u \in SrThreads |->
                    IF u \in SrNewTeam(t) THEN "loop" ELSE srPc[u]]
    /\ srBound' = [u \in SrThreads |->
                    IF u \in SrNewTeam(t) THEN SrNewTeam(t) ELSE srBound[u]]
    /\ srOpener' = [u \in SrThreads |->
                    IF u \in SrNewTeam(t) THEN t ELSE srOpener[u]]
    /\ srI' = [u \in SrThreads |-> IF u \in SrNewTeam(t) THEN 0 ELSE srI[u]]
    /\ srJ' = [u \in SrThreads |->
                IF u \in SrNewTeam(t)
                THEN (IF Cardinality(SrNewTeam(t)) = 1 THEN 0
                      ELSE srCuts[Cardinality({w \in SrNewTeam(t) : w <= u})])
                ELSE srJ[u]]
    /\ UNCHANGED <<srFixed, srX, srApplied, srWriters>>
    /\ UNCHANGED notSubroutine

\* lines 1216-1217: already in a parallel region, thread t runs the loop
\* over the components as a member of the team it is in
SrAlreadyParallel(t) ==
    /\ srPc[t] = "call"
    /\ ~OpensRegion
    /\ srPc' = [srPc EXCEPT ![t] = "loop"]
    /\ srBound' = [srBound EXCEPT ![t] = 1..srEnclosing]
    /\ srI' = [srI EXCEPT ![t] = 0]
    /\ srJ' = [srJ EXCEPT ![t] = srCuts[t]]
    /\ UNCHANGED <<srFixed, srX, srApplied, srWriters, srOpener>>
    /\ UNCHANGED notSubroutine

\* dg::blas1::subroutine on component i (lines 1212, 1218): thread t
\* applies f to the next element of its range
SrApply(t) ==
    /\ srPc[t] = "loop"
    /\ srI[t] < srSize
    /\ srJ[t] < SrEnd(t)
    /\ srX' = [srX EXCEPT ![srI[t] + 1][srJ[t]] = SrF(@)]
    /\ srApplied' = [srApplied EXCEPT ![srI[t] + 1][srJ[t]] = @ + 1]
    /\ srWriters' = [srWriters EXCEPT ![srI[t] + 1][srJ[t]] = @ \cup {t}]
    /\ srJ' = [srJ EXCEPT ![t] = @ + 1]
    /\ UNCHANGED <<srFixed, srPc, srBound, srOpener, srI>>
    /\ UNCHANGED notSubroutine

\* the range of thread t in component i is done: i++ (lines 1211, 1217),
\* without waiting for the other threads
SrNextComponent(t) ==
    /\ srPc[t] = "loop"
    /\ srI[t] < srSize
    /\ srJ[t] >= SrEnd(t)
    /\ srI' = [srI EXCEPT ![t] = @ + 1]
    /\ srJ' = [srJ EXCEPT ![t] = SrFirst(t)]
    /\ UNCHANGED <<srFixed, srX, srApplied, srWriters, srPc, srBound,
                   srOpener>>
    /\ UNCHANGED notSubroutine

\* i == size: the loop of thread t is over
SrLoopEnd(t) ==
    /\ srPc[t] = "loop"
    /\ srI[t] = srSize
    /\ srPc' = [srPc EXCEPT ![t] = "end"]
    /\ UNCHANGED <<srFixed, srX, srApplied, srWriters, srBound, srOpener,
                   srI, srJ>>
    /\ UNCHANGED notSubroutine

\* line 1215: the region that thread t opened ends when every thread of its
\* team is through the loop; thread t returns from the dispatch
SrCloseRegion(t) ==
    /\ srOpener[t] = t
    /\ \A u \in srBound[t] : srPc[u] = "end"
    /\ srPc' = [u \in SrThreads |->
                    IF u = t THEN "done"
                    ELSE IF u \in srBound[t] THEN "none" ELSE srPc[u]]
    /\ UNCHANGED <<srFixed, srX, srApplied, srWriters, srBound, srOpener,
                   srI, srJ>>
    /\ UNCHANGED notSubroutine

\* line 1220 after the loop of the else branch: thread t returns
SrReturn(t) ==
    /\ srPc[t] = "end"
    /\ srOpener[t] = 0
    /\ srPc' = [srPc EXCEPT ![t] = "done"]
    /\ UNCHANGED <<srFixed, srX, srApplied, srWriters, srBound, srOpener,
                   srI, srJ>>
    /\ UNCHANGED notSubroutine

NextSubroutine ==
    \/ \E t \in SrThreads : SrOpenRegion(t)
    \/ \E t \in SrThreads : SrAlreadyParallel(t)
    \/ \E t \in SrThreads : SrApply(t)
    \/ \E t \in SrThreads : SrNextComponent(t)
    \/ \E t \in SrThreads : SrLoopEnd(t)
    \/ \E t \in SrThreads : SrCloseRegion(t)
    \/ \E t \in SrThreads : SrReturn(t)

SpecSubroutine == InitSubroutine /\ [][NextSubroutine]_vars

\* every caller has returned from the dispatch
SrAllReturned == \A t \in SrCallers : srPc[t] = "done"

\* C20: for any number of threads, entered from serial code or by the
\* threads of a running parallel region, the threads in the loop own
\* pairwise disjoint index ranges, an element is only ever written by the
\* thread that owns it, no element is written by two threads or has the
\* subroutine applied twice, and when the callers have returned every
\* element of every component has been written by exactly one thread and
\* holds the subroutine applied once to its value at the call.
C20_DisjointRangesAppliedOnce ==
    /\ \A t, u \in SrThreads :
        (t # u /\ srPc[t] \in {"loop", "end"} /\ srPc[u] \in {"loop", "end"})
            => SrRange(t) \cap SrRange(u) = {}
    /\ \A i \in 1..srSize : \A j \in 0..(SrLen - 1) :
        /\ srApplied[i][j] <= 1
        /\ Cardinality(srWriters[i][j]) <= 1
        /\ \A t \in srWriters[i][j] : j \in SrRange(t)
        /\ SrAllReturned
            => /\ srApplied[i][j] = 1
               /\ Cardinality(srWriters[i][j]) = 1
               /\ srX[i][j] = SrF(srX0[i][j])

\* the threads of a running region of MaxThreads threads have returned,
\* each has written elements of each of the components
C20_Witness ==
    /\ srEnclosing = MaxThreads
    /\ srSize = MaxSrComps
    /\ SrAllReturned
    /\ \A t \in SrThreads : \A i \in 1..srSize :
        \E j \in 0..(SrLen - 1) : srWriters[i][j] = {t}

\* the same from serial code: the region of the dispatch has ended
C20_WitnessSerial ==
    /\ srEnclosing = 0
    /\ srTeam > 1
    /\ srSize = MaxSrComps
    /\ SrAllReturned
    /\ \E i \in 1..srSize : \E j, j2 \in 0..(SrLen - 1) :
        srWriters[i][j] # srWriters[i][j2]

(***************************************************************************)
(* dg::blas1::axpby as the drivers call it: the distance test of the       *)
(* periodic derivative (part_001:37-43), the total temperature of          *)
(* toefl_t.cu:67-69, the distance to the solution of average_t.cu:24-26,   *)
(* and a call with any scalars. Values are small integers, on which the    *)
(* double arithmetic of the library is exact.                              *)
(***************************************************************************)
AxLen == 2                       \* elements of a vector
AxValues == {0 - 1, 0, 2}        \* values of the elements
AxScalars == {0 - 1, 0, 1, 2}    \* a and b of the call with any scalars
AxVectors == [1..AxLen -> AxValues]
AxWeights == [i \in 1..AxLen |-> i]   \* dg::create::weights: positive

AxDrivers == {"distance", "temperature", "average", "any"}

\* the calls of a driver, in order
AxCalls(prog, a, b) ==
    CASE prog = "distance" ->
            << [a |-> 1, x |-> "func", b |-> 0 - 1, y |-> "result2",
                z |-> "result2"] >>
      [] prog = "temperature" ->
            << [a |-> 1, x |-> "y0", b |-> 0, y |-> "temperature",
                z |-> "temperature"],
               [a |-> 1, x |-> "ground", b |-> 1, y |-> "temperature",
                z |-> "temperature"] >>
      [] prog = "average" ->
            << [a |-> 1, x |-> "solution", b |-> 0 - 1, y |-> "average_y",
                z |-> "vector"] >>
      [] OTHER ->
            << [a |-> a, x |-> "x", b |-> b, y |-> "y", z |-> "y"] >>

\* the vector whose weighted norm the driver prints after its calls
AxNormOf(prog) ==
    CASE prog = "distance" -> <<"result2">>
      [] prog = "average" -> <<"vector">>
      [] OTHER -> <<>>

\* one element of blas1::detail::doAxpby without the term b*y
AxpbyElementMut(a, xv, b, yv) == a * xv

\* one element of blas1::detail::doAxpby: a*x[i] + b*y[i]
AxpbyElement(a, xv, b, yv) == a * xv + b * yv

\* blas2::dot( v, w, v): the weighted sum of the squares
AxWeightedDot(v) == SumSeq([i \in 1..AxLen |-> AxWeights[i] * v[i] * v[i]])

InitAxpby ==
    /\ CGIdle
    /\ MpiDotIdle
    /\ VecDotIdle
    /\ SymvIdle
    /\ SymvABIdle
    /\ CollectiveIdle
    /\ SubroutineIdle
    /\ DriverIdle
    /\ VecSubIdle
    /\ EllipticIdle
    /\ Elliptic3dIdle
    /\ MpiDot2Idle
    /\ DotGridIdle
    /\ axProg \in AxDrivers
    /\ \E u, v, w \in AxVectors : \E a, b \in AxScalars :
        /\ axStore =
            CASE axProg = "distance" ->
                    [n \in {"func", "result2"} |-> u]
              [] axProg = "temperature" ->
                    [n \in {"y0", "ground", "temperature"} |->
                        IF n = "y0" THEN u ELSE IF n = "ground" THEN v ELSE w]
              [] axProg = "average" ->
                    [n \in {"solution", "average_y", "vector"} |->
                        IF n = "solution" THEN u
                        ELSE IF n = "average_y" THEN v ELSE w]
              [] OTHER ->
                    [n \in {"x", "y"} |-> IF n = "x" THEN u ELSE v]
        /\ (axProg = "distance" => v = u /\ w = u)
        /\ (axProg = "any" => w = u)
        /\ axCall = <<>>
        /\ axOld = [calls |-> AxCalls(axProg,
                                      IF axProg = "any" THEN a ELSE 1,
                                      IF axProg = "any" THEN b ELSE 1),
                    store |-> <<>>]
    /\ axDone = 0
    /\ axI = 0
    /\ axPc = "call"
    /\ axNorm = <<>>

\* the driver reaches its next axpby
AxpbyCall ==
    /\ axPc = "call"
    /\ axDone < Len(axOld.calls)
    /\ axCall' = <<axOld.calls[axDone + 1]>>
    /\ axOld' = [axOld EXCEPT !.store = axStore]
    /\ axI' = 1
    /\ axPc' = "loop"
    /\ UNCHANGED <<axProg, axStore, axDone, axNorm>>
    /\ UNCHANGED notAxpby

\* the elementwise loop of axpby writes element axI of the output
AxpbyStep ==
    /\ axPc = "loop"
    /\ axI <= AxLen
    /\ LET c == axCall[1]
       IN  axStore' = [axStore EXCEPT ![c.z][axI] =
                        AxpbyElement(c.a, axStore[c.x][axI],
                                     c.b, axStore[c.y][axI])]
    /\ axI' = axI + 1
    /\ UNCHANGED <<axProg, axOld, axCall, axDone, axPc, axNorm>>
    /\ UNCHANGED notAxpby

\* axpby returns
AxpbyReturn ==
    /\ axPc = "loop"
    /\ axI > AxLen
    /\ axDone' = axDone + 1
    /\ axPc' = "returned"
    /\ UNCHANGED <<axProg, axStore, axOld, axCall, axI, axNorm>>
    /\ UNCHANGED notAxpby

\* the driver goes on to its next statement
AxpbyNext ==
    /\ axPc = "returned"
    /\ axPc' = IF axDone < Len(axOld.calls) THEN "call"
               ELSE IF AxNormOf(axProg) # <<>> THEN "norm" ELSE "done"
    /\ UNCHANGED <<axProg, axStore, axOld, axCall, axDone, axI, axNorm>>
    /\ UNCHANGED notAxpby

\* part_001:42, average_t.cu:26: the squared weighted norm of the difference
AxpbyNorm ==
    /\ axPc = "norm"
    /\ axNorm' = <<AxWeightedDot(axStore[AxNormOf(axProg)[1]])>>
    /\ axPc' = "done"
    /\ UNCHANGED <<axProg, axStore, axOld, axCall, axDone, axI>>
    /\ UNCHANGED notAxpby

NextAxpby ==
    \/ AxpbyCall
    \/ AxpbyStep
    \/ AxpbyReturn
    \/ AxpbyNext
    \/ AxpbyNorm

SpecAxpby == InitAxpby /\ [][NextAxpby]_vars

\* C21: when axpby returns, every element of its output is a*x[i] + b*y[i]
\* of the vectors as they were at the call and every other vector, x among
\* them, is as it was: with b = 0 the output is a*x whatever y held, the
\* distance test (a = 1, b = -1, y a copy of x) ends with the zero vector and
\* a weighted norm of 0, and the three-vector form leaves a*x + b*y in z.
C21_AxpbyResult ==
    /\ axPc = "returned"
        => LET c == axCall[1]
           IN  /\ \A i \in 1..AxLen :
                    axStore[c.z][i] = c.a * axOld.store[c.x][i]
                                        + c.b * axOld.store[c.y][i]
               /\ c.b = 0
                    => \A i \in 1..AxLen :
                            axStore[c.z][i] = c.a * axOld.store[c.x][i]
               /\ \A n \in DOMAIN axStore :
                    n # c.z => axStore[n] = axOld.store[n]
               /\ axStore[c.x] = axOld.store[c.x]
    /\ (axPc = "done" /\ axProg = "distance")
        => /\ axStore["result2"] = [i \in 1..AxLen |-> 0]
           /\ axNorm = <<0>>
    /\ (axPc = "done" /\ axProg = "temperature")
        => \A i \in 1..AxLen :
                axStore["temperature"][i]
                    = axStore["y0"][i] + axStore["ground"][i]

\* the second call of the temperature driver has returned: the first has
\* overwritten an old temperature that was neither y0 nor the sum
C21_Witness ==
    /\ axProg = "temperature"
    /\ axPc = "returned"
    /\ axDone = 2
    /\ axStore["temperature"] # axStore["ground"]
    /\ axStore["temperature"] # axStore["y0"]
    /\ axOld.store["temperature"] = axStore["y0"]

(***************************************************************************)
(* The time loop of the driver, part_000:78-113: maxout outputs, itstp     *)
(* time steps before each, inside one try block whose handler for dg::Fail *)
(* comes after both loops.                                                 *)
(***************************************************************************)
MaxMaxout == 3       \* p.maxout
MaxItstp == 3        \* p.itstp

\* a handler inside the inner loop: the loop goes on after a failed step
HandlerTargetMut == "inner"

\* part_000:108: where control goes when ab throws dg::Fail
HandlerTarget == "catch"

InitDriver ==
    /\ CGIdle
    /\ MpiDotIdle
    /\ VecDotIdle
    /\ SymvIdle
    /\ SymvABIdle
    /\ CollectiveIdle
    /\ SubroutineIdle
    /\ AxpbyIdle
    /\ VecSubIdle
    /\ EllipticIdle
    /\ Elliptic3dIdle
    /\ MpiDot2Idle
    /\ DotGridIdle
    /\ drMaxout \in 0..MaxMaxout
    /\ drItstp \in 0..MaxItstp
    /\ drI = 0 /\ drJ = 0
    /\ drPc = "outer"
    /\ drSteps = 0 /\ drAppends = 0 /\ drWrites = 0 /\ drTime = 0
    /\ drFailed = FALSE /\ drReported = FALSE

drFixed == <<drMaxout, drItstp>>

\* part_000:83, for( unsigned i=0; i<p.maxout; i++)
DriverOuterTest ==
    /\ drPc = "outer"
    /\ IF drI < drMaxout
       THEN drJ' = 0 /\ drPc' = "inner"
       ELSE drJ' = drJ /\ drPc' = "after"
    /\ UNCHANGED <<drFixed, drI, drSteps, drAppends, drWrites, drTime,
                   drFailed, drReported>>
    /\ UNCHANGED notDriver

\* part_000:90, for( unsigned j=0; j<p.itstp; j++)
DriverInnerTest ==
    /\ drPc = "inner"
    /\ drPc' = IF drJ < drItstp THEN "step" ELSE "output"
    /\ UNCHANGED <<drFixed, drI, drJ, drSteps, drAppends, drWrites, drTime,
                   drFailed, drReported>>
    /\ UNCHANGED notDriver

\* part_000:92-95: ab returns, the fields are swapped, the accuracy details
\* are appended
DriverStep ==
    /\ drPc = "step"
    /\ drSteps' = drSteps + 1
    /\ drAppends' = drAppends + 1
    /\ drJ' = drJ + 1
    /\ drPc' = "inner"
    /\ UNCHANGED <<drFixed, drI, drWrites, drTime, drFailed, drReported>>
    /\ UNCHANGED notDriver

\* part_000:92: the CG inside ab does not converge and throws dg::Fail
DriverStepFails ==
    /\ drPc = "step"
    /\ drFailed' = TRUE
    /\ drPc' = HandlerTarget
    /\ UNCHANGED <<drFixed, drI, drJ, drSteps, drAppends, drWrites, drTime,
                   drReported>>
    /\ UNCHANGED notDriver

\* part_000:97-101: time advances and the fields are written
DriverOutput ==
    /\ drPc = "output"
    /\ drTime' = drTime + drItstp
    /\ drWrites' = drWrites + 1
    /\ drI' = drI + 1
    /\ drPc' = "outer"
    /\ UNCHANGED <<drFixed, drJ, drSteps, drAppends, drFailed, drReported>>
    /\ UNCHANGED notDriver

\* part_000:108-111: the handler reports the failure
DriverCatch ==
    /\ drPc = "catch"
    /\ drReported' = TRUE
    /\ drPc' = "after"
    /\ UNCHANGED <<drFixed, drI, drJ, drSteps, drAppends, drWrites, drTime,
                   drFailed>>
    /\ UNCHANGED notDriver

\* part_000:112-120: the computation time is printed, main returns 0
DriverFinish ==
    /\ drPc = "after"
    /\ drPc' = "done"
    /\ UNCHANGED <<drFixed, drI, drJ, drSteps, drAppends, drWrites, drTime,
                   drFailed, drReported>>
    /\ UNCHANGED notDriver

NextDriver ==
    \/ DriverOuterTest
    \/ DriverInnerTest
    \/ DriverStep
    \/ DriverStepFails
    \/ DriverOutput
    \/ DriverCatch
    \/ DriverFinish

SpecDriver == InitDriver /\ [][NextDriver]_vars

\* C22: once a time step of the loop has failed, the loop has been left for
\* good (control is in the handler or behind it), no further time step is
\* taken, nothing more is appended or written to the output file, and main
\* does not end without having reported the failure.
C22_FailureEndsTheLoop ==
    /\ [](drFailed => /\ drPc \in {"catch", "after", "done"}
                      /\ (drPc \in {"after", "done"} => drReported))
    /\ [][drFailed => /\ drSteps' = drSteps
                      /\ drWrites' = drWrites
                      /\ drAppends' = drAppends
                      /\ drTime' = drTime
                      /\ drFailed']_vars

\* main has ended after a failure in the second round of steps: outputs
\* were still due
C22_Witness ==
    /\ drPc = "done"
    /\ drFailed /\ drReported
    /\ drWrites = 1
    /\ drSteps > drItstp
    /\ drWrites < drMaxout

\* C23: when the local apply of symv is over, the output entry of every
\* interior cell (s, i, kk, j, l) is the sum over the diagonals m of the
\* x block of m times the slice x[(s, i, kk, j, .) + offset[m]], contracted
\* over the inner index, and of the y block of m times the slice
\* x[(s, i, ., j, l) + offset[m]], contracted over the outer index, where an
\* empty block adds nothing; nothing of what y held before is in the sum.
C23_LocalApplyIsBlockSum ==
    \A p \in SymvProcs :
      smPc[p] = "xterm" =>
        \A s \in 0..(SymvNz - 1) : \A i \in 1..(rows - 2) :
          \A kk \in 0..(SymvN - 1) : \A j \in 1..(cols - 2) :
            \A l \in 0..(SymvN - 1) :
              smY[p][Idx(s, i, kk, j, l)]
                = SumSeq([m \in 1..Len(smMat.dataX) |->
                    (IF smMat.dataX[m] = <<>> THEN 0
                     ELSE SumSeq([q \in 1..SymvN |->
                            smMat.dataX[m][l * SymvN + q]
                            * smX[p][Idx(s, i, kk, j, q - 1)
                                     + smMat.offset[m]]]))
                    + (IF smMat.dataY[m] = <<>> THEN 0
                       ELSE SumSeq([pp \in 1..SymvN |->
                              smMat.dataY[m][kk * SymvN + pp]
                              * smX[p][Idx(s, i, pp - 1, j, l)
                                       + smMat.offset[m]]]))])

\* local apply is over on a process whose matrix has a diagonal with only a
\* y block and one with only an x block, both with an offset, and the
\* output is neither zero nor what y held before
C23_Witness ==
    \E p \in SymvProcs :
        /\ smPc[p] = "xterm"
        /\ \E m \in 1..Len(smMat.dataX) :
            smMat.dataX[m] = <<>> /\ smMat.dataY[m] # <<>>
                /\ smMat.offset[m] # 0
        /\ \E m \in 1..Len(smMat.dataX) :
            smMat.dataX[m] # <<>> /\ smMat.dataY[m] = <<>>
                /\ smMat.offset[m] # 0
        /\ \A e \in LocalIdx :
            IsInterior(e) => smY[p][e] \notin {0, StaleOutput}

\* the exact dot product of the components i of x1 and x2
ExactCompDot(i) ==
    SumSeq([j \in 1..Len(vX1[i]) |-> vX1[i][j] * vX2[i][j]])

ExactVecDot == SumSeq([i \in 1..VecSize |-> ExactCompDot(i)])

\* C24: for vectors of vectors with the same number of components the
\* accumulator doDot_superacc returns holds, bin by bin, the sum of the
\* normalized accumulators of all components, so that it stands for the
\* exact sum of the component dot products and doDot is the rounding of
\* that sum.
C24_MergeCoversEveryBin ==
    (vPc = "done" /\ vOutcome = "value" /\ vPath = "superacc" /\ VecSize >= 1)
        => /\ VecSize = 2
                => \A bin \in Bins :
                        vAcc[1][bin] = Normalize(CompAcc(1))[bin]
                                        + Normalize(CompAcc(2))[bin]
           /\ AccValue(vAcc[1]) = ExactVecDot
           /\ vResult = Some(Fl(ExactVecDot))

(***************************************************************************)
(* Elementwise subroutines and symv on vectors of vectors: the loops of    *)
(* doSubroutine_dispatch( VectorVectorTag, AnyPolicyTag) (filter.h:        *)
(* 1226-1232) and of doSymv( AnyMatrixTag, StdVectorTag, StdVectorTag)     *)
(* (std_matrix_blas.cuh:14-33). The subroutine is called as                *)
(* subroutine( f, y, a, x) with a scalar a, f being y = a*x + y on every   *)
(* element; the matrix of symv holds one weight per element.               *)
(***************************************************************************)
MaxVsComps == 3      \* components of a vector of vectors
VsLen == 2           \* elements of a component

VsScalars == {0 - 1, 2}
VsLeaves == {<<1, 2>>, <<0 - 1, 1>>, <<2, 0>>}
VsWeights == <<2, 3>>

\* the output before the call: component i holds 10*i + j in element j
VsOldY(n) == [i \in 1..n |-> [j \in 1..VsLen |-> 10 * i + j]]

\* get_element that takes component 0 whatever i is
get_elementMut(v, i, scalar) == IF scalar THEN v ELSE v[1]

\* filter.h:1187-1198, get_element: v[i] of a vector, v itself of a scalar
\* (i counts from 0, the sequences of the model from 1)
get_element(v, i, scalar) == IF scalar THEN v ELSE v[i + 1]

\* the subroutine f on one component: y = a*x + y
VsF(y, a, x) == [j \in DOMAIN y |-> a * x[j] + y[j]]

\* symv of the matrix on one component: y = m x
VsSymv(m, x) == [j \in DOMAIN x |-> m[j] * x[j]]

InitVecSub ==
    /\ CGIdle
    /\ MpiDotIdle
    /\ VecDotIdle
    /\ SymvIdle
    /\ SymvABIdle
    /\ CollectiveIdle
    /\ SubroutineIdle
    /\ AxpbyIdle
    /\ DriverIdle
    /\ EllipticIdle
    /\ Elliptic3dIdle
    /\ MpiDot2Idle
    /\ DotGridIdle
    /\ vsOp \in {"subroutine", "symv"}
    /\ vsA \in (IF vsOp = "subroutine" THEN VsScalars ELSE {0})
    /\ vsM = VsWeights
    /\ \E n \in 0..MaxVsComps :
        /\ vsX \in [1..n -> VsLeaves]
        /\ vsY = VsOldY(n)
        /\ vsY0 = VsOldY(n)
    /\ vsI = 0
    /\ vsLog = <<>>
    /\ vsPc = "loop"

\* filter.h:1229-1231: subroutine( f, get_element( x, i), get_element( xs,
\* i)...) on the components i, then i++
VecSubCall ==
    /\ vsPc = "loop"
    /\ vsOp = "subroutine"
    /\ vsI < Len(vsY)
    /\ LET yi == get_element(vsY, vsI, FALSE)
           ai == get_element(vsA, vsI, TRUE)
           xi == get_element(vsX, vsI, FALSE)
       IN  /\ vsY' = [vsY EXCEPT ![vsI + 1] = VsF(yi, ai, xi)]
           /\ vsLog' = Append(vsLog, <<vsI, ai, xi, yi>>)
    /\ vsI' = vsI + 1
    /\ UNCHANGED <<vsOp, vsA, vsM, vsX, vsY0, vsPc>>
    /\ UNCHANGED notVecSub

\* std_matrix_blas.cuh:27-31: doSymv( m, x[i], y[i], ...), then i++
VecSymvCall ==
    /\ vsPc = "loop"
    /\ vsOp = "symv"
    /\ vsI < Len(vsX)
    /\ vsY' = [vsY EXCEPT ![vsI + 1] = VsSymv(vsM, vsX[vsI + 1])]
    /\ vsLog' = Append(vsLog, <<vsI, 0, vsX[vsI + 1], vsY[vsI + 1]>>)
    /\ vsI' = vsI + 1
    /\ UNCHANGED <<vsOp, vsA, vsM, vsX, vsY0, vsPc>>
    /\ UNCHANGED notVecSub

\* i == size: the loop is over
VecSubReturn ==
    /\ vsPc = "loop"
    /\ vsI >= Len(vsY)
    /\ vsPc' = "done"
    /\ UNCHANGED <<vsOp, vsA, vsM, vsX, vsY, vsY0, vsI, vsLog>>
    /\ UNCHANGED notVecSub

NextVecSub ==
    \/ VecSubCall
    \/ VecSymvCall
    \/ VecSubReturn

SpecVecSub == InitVecSub /\ [][NextVecSub]_vars

\* C25: when the loop is over there has been exactly one call for each
\* i = 0 .. size-1, in this order, on component i of the input and component
\* i of the output as it was at the call, with the scalar as the caller gave
\* it; component i of the output is the subroutine (the matrix) applied to
\* components i alone, and the input is unchanged.
C25_ComponentwiseOnce ==
    /\ Len(vsLog) = vsI
    /\ \A c \in 1..Len(vsLog) :
        /\ vsLog[c][1] = c - 1
        /\ vsLog[c][2] = vsA
        /\ vsLog[c][3] = vsX[c]
        /\ vsLog[c][4] = vsY0[c]
    /\ \A c \in 1..Len(vsY) :
        vsY[c] = IF c > vsI THEN vsY0[c]
                 ELSE IF vsOp = "subroutine"
                 THEN [j \in 1..VsLen |-> vsA * vsX[c][j] + vsY0[c][j]]
                 ELSE [j \in 1..VsLen |-> vsM[j] * vsX[c][j]]
    /\ vsPc = "done" => vsI = Len(vsX)

\* a subroutine has run over three components that differ from each other
C25_Witness ==
    /\ vsPc = "done"
    /\ vsOp = "subroutine"
    /\ Len(vsX) = MaxVsComps
    /\ vsX[1] # vsX[2] /\ vsX[2] # vsX[MaxVsComps]
    /\ Len(vsLog) = MaxVsComps

(***************************************************************************)
(* Elliptic: construct and the two set_chi (filter.h:283-345). A container *)
(* is a sequence of positive rationals <<numerator, denominator>> in       *)
(* lowest terms, so that products and quotients are exact; a tensor is the *)
(* sequence of its components xx, xy, yy.                                  *)
(***************************************************************************)
MaxSetChi == 4       \* set_chi calls after construction

RECURSIVE QGcd(_, _)
QGcd(a, b) == IF b = 0 THEN a ELSE QGcd(b, a % b)

QNorm(q) == <<q[1] \div QGcd(q[1], q[2]), q[2] \div QGcd(q[1], q[2])>>
QMul(a, b) == QNorm(<<a[1] * b[1], a[2] * b[2]>>)
QDiv(a, b) == QNorm(<<a[1] * b[2], a[2] * b[1]>>)
QOne == <<1, 1>>

\* dg::blas1::pointwiseDivide( x, y, z): z[i] = x[i] / y[i]
pointwiseDivide(x, y) == [i \in DOMAIN x |-> QDiv(x[i], y[i])]
pointwiseDot(x, y) == [i \in DOMAIN x |-> QMul(x[i], y[i])]

\* dg::tensor::scal( t, mu): every component of t times mu
TensorScal(t, mu) == [c \in DOMAIN t |-> pointwiseDot(t[c], mu)]

\* the scalar parts a caller may set: all elements > 0
ElSigmas ==
    { <<(<<2, 1>>), (<<3, 1>>)>>,
      <<(<<1, 2>>), (<<1, 1>>)>>,
      <<(<<3, 1>>), (<<3, 2>>)>>,
      <<(<<1, 1>>), (<<1, 1>>)>> }

\* the tensor parts a caller may set
ElTaus ==
    { << <<(<<1, 1>>), (<<2, 1>>)>>, <<(<<1, 2>>), (<<1, 1>>)>>,
         <<(<<3, 1>>), (<<1, 1>>)>> >>,
      << <<(<<5, 1>>), (<<1, 3>>)>>, <<(<<1, 1>>), (<<1, 1>>)>>,
         <<(<<2, 1>>), (<<2, 3>>)>> >> }

\* g.metric(), dg::tensor::volume of it, dg::create::inv_weights( g) and
\* dg::create::inv_volume( g)
ElGridMetric ==
    << <<(<<1, 1>>), (<<4, 1>>)>>, <<(<<1, 1>>), (<<1, 2>>)>>,
       <<(<<1, 1>>), (<<1, 4>>)>> >>
ElGridVolume == <<(<<1, 1>>), (<<2, 1>>)>>
ElGridInvWeights == <<(<<2, 1>>), (<<2, 3>>)>>
ElGridInvVolume == pointwiseDivide(ElGridInvWeights, ElGridVolume)

ElOnes == [i \in DOMAIN ElGridVolume |-> QOne]

\* filter.h:283-302, construct
InitElliptic ==
    /\ CGIdle
    /\ MpiDotIdle
    /\ VecDotIdle
    /\ SymvIdle
    /\ SymvABIdle
    /\ CollectiveIdle
    /\ SubroutineIdle
    /\ AxpbyIdle
    /\ DriverIdle
    /\ VecSubIdle
    /\ Elliptic3dIdle
    /\ MpiDot2Idle
    /\ DotGridIdle
    /\ elMetric = ElGridMetric
    /\ elInvW = ElGridInvWeights
    /\ m_vol = ElGridVolume
    /\ m_precond = ElGridInvWeights
    /\ m_tempx = ElGridInvVolume
    /\ m_chi = TensorScal(ElGridMetric, ElGridVolume)
    /\ m_sigma = ElOnes
    /\ elSigma = <<>>
    /\ elTau = <<>>
    /\ elCalls = 0

\* set_chi( sigma) that divides the preconditioner by sigma itself
SetChiSigmaPrecondMut(precond, sigma, tempx) == pointwiseDivide(precond, sigma)

\* filter.h:324: the preconditioner is divided by sigma / m_sigma
SetChiSigmaPrecond(precond, sigma, tempx) == pointwiseDivide(precond, tempx)

\* filter.h:309-327, set_chi( sigma)
EllipticSetChiSigma ==
    /\ elCalls < MaxSetChi
    /\ \E sigma \in ElSigmas :
        LET tempx == pointwiseDivide(sigma, m_sigma)
        IN  /\ m_tempx' = tempx
            /\ m_precond' = SetChiSigmaPrecond(m_precond, sigma, tempx)
            /\ m_chi' = TensorScal(m_chi, tempx)
            /\ m_sigma' = sigma
            /\ elSigma' = <<sigma>>
    /\ elCalls' = elCalls + 1
    /\ UNCHANGED <<m_vol, elMetric, elInvW, elTau>>
    /\ UNCHANGED notElliptic

\* filter.h:328-345, set_chi( tau)
EllipticSetChiTau ==
    /\ elCalls < MaxSetChi
    /\ \E tau \in ElTaus :
        /\ m_chi' = TensorScal(TensorScal(tau, m_sigma), m_vol)
        /\ elTau' = <<tau>>
    /\ elCalls' = elCalls + 1
    /\ UNCHANGED <<m_sigma, m_precond, m_tempx, m_vol, elMetric, elInvW,
                   elSigma>>
    /\ UNCHANGED notElliptic

NextElliptic ==
    \/ EllipticSetChiSigma
    \/ EllipticSetChiTau

SpecElliptic == InitElliptic /\ [][NextElliptic]_vars

\* the last sigma set, or 1; the last tau set, or the metric
ElLastSigma == IF elSigma = <<>> THEN ElOnes ELSE elSigma[1]
ElLastTau == IF elTau = <<>> THEN elMetric ELSE elTau[1]

\* C26: after construction and any sequence of set_chi calls the stored
\* tensor is (the last sigma set, or 1) times (the last tau set, or the
\* metric) times the volume element, the stored scalar part is the last
\* sigma set (or 1), and the preconditioner is the inverse weights divided
\* by it, whatever calls came before.
C26_ChiIsLastSigmaTimesLastTau ==
    /\ \A c \in DOMAIN m_chi : \A i \in DOMAIN m_vol :
        m_chi[c][i] = QMul(QMul(ElLastSigma[i], ElLastTau[c][i]), m_vol[i])
    /\ m_sigma = ElLastSigma
    /\ \A i \in DOMAIN elInvW :
        m_precond[i] = QDiv(elInvW[i], ElLastSigma[i])

\* the scalar part set more than once and a tensor part set as well
C26_Witness ==
    /\ elCalls = MaxSetChi
    /\ elSigma # <<>> /\ elTau # <<>>
    /\ m_tempx # elSigma[1]
    /\ m_tempx # ElOnes
    /\ m_chi # TensorScal(elTau[1], m_vol)

(***************************************************************************)
(* Elliptic3d: the constructors and the construct overloads                *)
(* (filter.h:812-859). An argument is a record of its static type and its  *)
(* value; a call binds its arguments to the parameters of an overload by   *)
(* position.                                                               *)
(***************************************************************************)
E3Bcs == {"PER", "DIR", "DIR_NEU"}
E3Norms == {"normed", "not_normed"}
E3Directions == {"forward", "backward", "centered"}
E3Jfactors == {1, 2}

\* g.bcx(), g.bcy(), g.bcz()
E3GridBcs == {[bcx |-> "DIR", bcy |-> "PER", bcz |-> "PER"],
              [bcx |-> "PER", bcy |-> "DIR", bcz |-> "DIR_NEU"]}

\* filter.h:987-993
inverseBc(bound) ==
    CASE bound = "DIR" -> "NEU"
      [] bound = "NEU" -> "DIR"
      [] bound = "DIR_NEU" -> "NEU_DIR"
      [] bound = "NEU_DIR" -> "DIR_NEU"
      [] OTHER -> "PER"

\* filter.h:995-1000
inverseDir(dir) ==
    CASE dir = "forward" -> "backward"
      [] dir = "backward" -> "forward"
      [] OTHER -> "centered"

Arg(type, val) == [type |-> type, val |-> val]

\* filter.h:833-854: the members construct( g, bcx, bcy, bcz, no, dir,
\* jfactor) sets from its parameters
Construct7(a) ==
    [m_no |-> a[5].val, m_jfactor |-> a[7].val,
     m_leftx |-> <<"dx", inverseBc(a[2].val), inverseDir(a[6].val)>>,
     m_lefty |-> <<"dy", inverseBc(a[3].val), inverseDir(a[6].val)>>,
     m_leftz |-> <<"dz", inverseBc(a[4].val), inverseDir(a[6].val)>>,
     m_rightx |-> <<"dx", a[2].val, a[6].val>>,
     m_righty |-> <<"dy", a[3].val, a[6].val>>,
     m_rightz |-> <<"dz", a[4].val, a[6].val>>,
     m_jumpX |-> <<"jumpX", a[2].val>>,
     m_jumpY |-> <<"jumpY", a[3].val>>]

\* the parameter lists of the two construct overloads and their defaults
Params7 == <<"Geometry", "bc", "bc", "bc", "norm", "direction", "value_type">>
Params4 == <<"Geometry", "norm", "direction", "value_type">>
DefaultOf(type) ==
    CASE type = "norm" -> Arg("norm", "not_normed")
      [] type = "direction" -> Arg("direction", "forward")
      [] type = "value_type" -> Arg("value_type", 1)
      [] OTHER -> <<>>

\* an argument initialises a parameter of its own type only: there is no
\* implicit conversion from one enumeration to another, nor from a
\* floating-point value to an enumeration
Converts(from, to) == from = to

Viable(args, params) ==
    /\ Len(args) <= Len(params)
    /\ \A i \in 1..Len(args) : Converts(args[i].type, params[i])
    /\ \A i \in (Len(args) + 1)..Len(params) : DefaultOf(params[i]) # <<>>

WithDefaults(args, params) ==
    [i \in 1..Len(params) |->
        IF i <= Len(args) THEN args[i] ELSE DefaultOf(params[i])]

\* the call construct( args...): the overload the arguments select and what
\* it sets; <<>> if no overload accepts the arguments
ConstructCall(args) ==
    IF Viable(args, Params7)
    THEN Construct7(WithDefaults(args, Params7))
    ELSE IF Viable(args, Params4)
    THEN LET a == WithDefaults(args, Params4)
             g == a[1].val
         IN  Construct7(<<a[1], Arg("bc", g.bcx), Arg("bc", g.bcy),
                          Arg("bc", g.bcz), a[2], a[3], a[4]>>)
    ELSE <<>>

E3Entries == {"ctor_grid", "ctor_bc", "construct_bc", "construct_grid"}

InitElliptic3d ==
    /\ CGIdle
    /\ MpiDotIdle
    /\ VecDotIdle
    /\ SymvIdle
    /\ SymvABIdle
    /\ CollectiveIdle
    /\ SubroutineIdle
    /\ AxpbyIdle
    /\ DriverIdle
    /\ VecSubIdle
    /\ EllipticIdle
    /\ MpiDot2Idle
    /\ DotGridIdle
    /\ e3Entry \in E3Entries
    /\ \E g \in E3GridBcs, bcx \in {"PER", "DIR"}, bcy \in {"PER"},
          bcz \in E3Bcs, no \in E3Norms, dir \in E3Directions,
          jfactor \in E3Jfactors :
        e3Args = [g |-> Arg("Geometry", g),
                  bcx |-> Arg("bc", IF e3Entry \in {"ctor_bc", "construct_bc"}
                                    THEN bcx ELSE g.bcx),
                  bcy |-> Arg("bc", IF e3Entry \in {"ctor_bc", "construct_bc"}
                                    THEN bcy ELSE g.bcy),
                  bcz |-> Arg("bc", IF e3Entry \in {"ctor_bc", "construct_bc"}
                                    THEN bcz ELSE g.bcz),
                  no |-> Arg("norm", no),
                  dir |-> Arg("direction", dir),
                  jfactor |-> Arg("value_type", jfactor)]
    /\ e3Pc = "call"
    /\ e3Obj = <<>>

E3Finish(obj) ==
    /\ e3Obj' = obj
    /\ e3Pc' = IF obj = <<>> THEN "rejected" ELSE "built"
    /\ UNCHANGED <<e3Entry, e3Args>>
    /\ UNCHANGED notElliptic3d

\* filter.h:812-815, Elliptic3d( g, no, dir, jfactor)
Elliptic3dCtorGrid ==
    /\ e3Pc = "call" /\ e3Entry = "ctor_grid"
    /\ LET a == e3Args
           g == a.g.val
       IN  E3Finish(ConstructCall(<<a.g, Arg("bc", g.bcx), Arg("bc", g.bcy),
                                    Arg("bc", g.bcz), a.no, a.dir,
                                    a.jfactor>>))

\* filter.h:818-821, Elliptic3d( g, bcx, bcy, bcz, no, dir, jfactor)
Elliptic3dCtorBc ==
    /\ e3Pc = "call" /\ e3Entry = "ctor_bc"
    /\ LET a == e3Args
       IN  E3Finish(ConstructCall(<<a.g, a.bcx, a.bcy, a.no, a.dir,
                                    a.jfactor>>))

\* filter.h:833-854, construct( g, bcx, bcy, bcz, no, dir, jfactor)
Elliptic3dConstructBc ==
    /\ e3Pc = "call" /\ e3Entry = "construct_bc"
    /\ LET a == e3Args
       IN  E3Finish(ConstructCall(<<a.g, a.bcx, a.bcy, a.bcz, a.no, a.dir,
                                    a.jfactor>>))

\* filter.h:857-859, construct( g, no, dir, jfactor)
Elliptic3dConstructGrid ==
    /\ e3Pc = "call" /\ e3Entry = "construct_grid"
    /\ LET a == e3Args
       IN  E3Finish(ConstructCall(<<a.g, a.no, a.dir, a.jfactor>>))

NextElliptic3d ==
    \/ Elliptic3dCtorGrid
    \/ Elliptic3dCtorBc
    \/ Elliptic3dConstructBc
    \/ Elliptic3dConstructGrid

SpecElliptic3d == InitElliptic3d /\ [][NextElliptic3d]_vars

\* what construct( g, bcx, bcy, bcz, no, dir, jfactor) sets for the caller's
\* arguments
E3Expected ==
    Construct7(<<e3Args.g, e3Args.bcx, e3Args.bcy, e3Args.bcz, e3Args.no,
                 e3Args.dir, e3Args.jfactor>>)

\* C27: the constructor with explicit boundary conditions leaves the object
\* as construct( g, bcx, bcy, bcz, no, dir, jfactor) would: the z
\* derivatives are built with the given bcz (right) and its inverse (left)
\* and no, dir and jfactor are the given ones.
C27_CtorForwardsEveryArgument ==
    (e3Entry = "ctor_bc" /\ e3Pc # "call") =>
        /\ e3Obj # <<>>
        /\ e3Obj = E3Expected
        /\ e3Obj.m_rightz = <<"dz", e3Args.bcz.val, e3Args.dir.val>>
        /\ e3Obj.m_leftz =
            <<"dz", inverseBc(e3Args.bcz.val), inverseDir(e3Args.dir.val)>>

\* the other three entry points do build the object from their arguments
E3OtherEntriesBuild ==
    (e3Entry # "ctor_bc" /\ e3Pc # "call") =>
        (e3Pc = "built" /\ e3Obj = E3Expected)

(***************************************************************************)
(* The weighted norm doDot( m, x, MPIPreconTag, MPIVectorTag)              *)
(* (mpi_precon_blas.h:27-31): it calls doDot( x, m, x) and has no return   *)
(* statement.                                                              *)
(***************************************************************************)
InitMpiDot2 ==
    /\ CGIdle
    /\ VecDotIdle
    /\ SymvIdle
    /\ SymvABIdle
    /\ CollectiveIdle
    /\ SubroutineIdle
    /\ AxpbyIdle
    /\ DriverIdle
    /\ VecSubIdle
    /\ EllipticIdle
    /\ Elliptic3dIdle
    /\ DotGridIdle
    /\ dGlobal \in [1..GlobalLen -> DotValues]
    /\ dM \in DotWeights
    /\ \E np \in 1..MaxDotProcs : \E cut \in Cuts(GlobalLen, np) :
        /\ dNx = [p \in 1..np |-> cut[p] + 2]
        /\ dX = [p \in 1..np |->
                    LocalPayload(dGlobal, SumSeq(SubSeq(cut, 1, p - 1)), cut[p],
                                 DotNz, DotNy, Len(dM))]
        /\ dY = dX
        /\ dPc = [p \in 1..np |-> "call"]
        /\ dTemp = [p \in 1..np |-> 0]
        /\ dSum = [p \in 1..np |-> NoValue]
        /\ d2Ret = [p \in 1..np |-> NoValue]

\* what the caller of a function of type value_type that ends without a
\* return statement may read: the value the last call left behind, the
\* local partial sum, or zero
NoReturnValues(p) == {dSum[p][1], dTemp[p], 0}

\* mpi_precon_blas.h:29-31: the inner doDot( x, m, x) has returned on process
\* p; its value is dropped and doDot( m, x) ends
Dot2Return(p) ==
    /\ dPc[p] = "returned"
    /\ \E v \in NoReturnValues(p) : d2Ret' = [d2Ret EXCEPT ![p] = Some(v)]
    /\ dPc' = [dPc EXCEPT ![p] = "done"]
    /\ UNCHANGED <<dX, dY, dM, dNx, dGlobal, dTemp, dSum>>
    /\ UNCHANGED <<cgVars, vdVars, smVars, abVars, coVars, srVars, axVars,
                   drVars, vsVars, elVars, e3Vars, cvVars>>

NextMpiDot2 ==
    \/ \E p \in DotProcs : DotLocalSum(p)
    \/ \E p \in DotProcs : DotAllreduceReturn(p)
    \/ \E p \in DotProcs : Dot2Return(p)

SpecMpiDot2 == InitMpiDot2 /\ [][NextMpiDot2]_vars

\* C28: doDot( m, x) returns what doDot( x, m, x) returns, on every process,
\* for every preconditioner m and vector x.
C28_NormIsDotWithItself ==
    \A p \in DotProcs :
        d2Ret[p] # NoValue =>
            /\ dY[p] = dX[p]
            /\ d2Ret[p] = dSum[p]

(***************************************************************************)
(* doDot( x, m, y, MPIPreconTag, MPIVectorTag) on payloads with several z  *)
(* planes, interior rows and stride entries (mpi_precon_blas.h:9-26). The  *)
(* values are small integers, on which double arithmetic is exact, so the  *)
(* sum tells which cells were read; what rounding does to the sum is the   *)
(* subject of the model with floating-point values above.                  *)
(***************************************************************************)
CvNz == 2            \* x.Nz
CvNy == 4            \* x.Ny, two ghost rows included
CvGlobalNx == 3      \* grid points along x, over all processes
CvMaxProcs == 2      \* largest number of processes

CvWeights == {<<2>>, <<1, 3>>}
CvKinds == {"ones", "numbered"}
CvGhosts == {0, 1, 7}

\* the global field of a kind at plane kk, interior row i (1..Ny-2), global
\* column jg (1..CvGlobalNx) and stride entry l
CvField(kind, kk, i, jg, l, stride) ==
    IF kind = "ones" THEN 1
    ELSE 1 + l + stride * ((jg - 1) + CvGlobalNx * ((i - 1) + (CvNy - 2) * kk))

\* the payload of the process owning global columns off+1..off+chunk
CvPayload(kind, off, chunk, stride, ghost) ==
    LET nx == chunk + 2
    IN  [c \in 1..(CvNz * CvNy * nx * stride) |->
            LET l == (c - 1) % stride
                j == ((c - 1) \div stride) % nx
                i == ((c - 1) \div (stride * nx)) % CvNy
                kk == (c - 1) \div (stride * nx * CvNy)
            IN  IF i >= 1 /\ i <= CvNy - 2 /\ j >= 1 /\ j <= nx - 2
                THEN CvField(kind, kk, i, off + j, l, stride)
                ELSE ghost]

\* for( i=1; i<x.Ny-1; i++) counting the upper ghost row as well
RowEndMut(ny) == ny

\* mpi_precon_blas.h:18: for( unsigned i=1; i<x.Ny-1; i++)
RowEnd(ny) == ny - 1

\* mpi_precon_blas.h:16-22: the four loops, from the c-th iteration on; st
\* is temp and the flat indices read so far
RECURSIVE GridLoop(_, _, _, _, _, _, _, _)
GridLoop(c, st, x, m, y, nz, ny, nx) ==
    LET stride == Len(m)
        nrows == RowEnd(ny) - 1
        ncols == (nx - 1) - 1
        count == nz * nrows * ncols * stride
        l == c % stride
        j == 1 + ((c \div stride) % ncols)
        i == 1 + ((c \div (stride * ncols)) % nrows)
        kk == c \div (stride * ncols * nrows)
        at == FlatIdx(kk, i, j, l, ny, nx, stride) + 1
    IN  IF nrows < 1 \/ ncols < 1 \/ c >= count THEN st
        ELSE GridLoop(c + 1,
                      [temp |-> st.temp + x[at] * m[l + 1] * y[at],
                       visited |-> Append(st.visited, at - 1)],
                      x, m, y, nz, ny, nx)

CvProcs == 1..Len(cvPc)

InitDotGrid ==
    /\ CGIdle
    /\ MpiDotIdle
    /\ VecDotIdle
    /\ SymvIdle
    /\ SymvABIdle
    /\ CollectiveIdle
    /\ SubroutineIdle
    /\ AxpbyIdle
    /\ DriverIdle
    /\ VecSubIdle
    /\ EllipticIdle
    /\ Elliptic3dIdle
    /\ MpiDot2Idle
    /\ cvM \in CvWeights
    /\ cvKinds \in [x : CvKinds, y : CvKinds]
    /\ \E np \in 1..CvMaxProcs : \E cut \in Cuts(CvGlobalNx, np) :
       \E gx \in [1..np -> CvGhosts], gy \in CvGhosts :
        /\ cvNx = [p \in 1..np |-> cut[p] + 2]
        /\ cvOff = [p \in 1..np |-> SumSeq(SubSeq(cut, 1, p - 1))]
        /\ cvX = [p \in 1..np |->
                    CvPayload(cvKinds.x, SumSeq(SubSeq(cut, 1, p - 1)), cut[p],
                              Len(cvM), gx[p])]
        /\ cvY = [p \in 1..np |->
                    CvPayload(cvKinds.y, SumSeq(SubSeq(cut, 1, p - 1)), cut[p],
                              Len(cvM), gy)]
        /\ cvPc = [p \in 1..np |-> "call"]
        /\ cvTemp = [p \in 1..np |-> 0]
        /\ cvSum = [p \in 1..np |-> NoValue]
        /\ cvVisited = [p \in 1..np |-> <<>>]

\* mpi_precon_blas.h:15-22: process p runs the loops and enters
\* MPI_Allreduce
DotGridLocalSum(p) ==
    /\ cvPc[p] = "call"
    /\ LET st == GridLoop(0, [temp |-> 0, visited |-> <<>>], cvX[p], cvM,
                          cvY[p], CvNz, CvNy, cvNx[p])
       IN  /\ cvTemp' = [cvTemp EXCEPT ![p] = st.temp]
           /\ cvVisited' = [cvVisited EXCEPT ![p] = st.visited]
    /\ cvPc' = [cvPc EXCEPT ![p] = "allreduce"]
    /\ UNCHANGED <<cvX, cvY, cvM, cvNx, cvOff, cvKinds, cvSum>>
    /\ UNCHANGED notDotGrid

\* mpi_precon_blas.h:23-25: MPI_Allreduce with MPI_SUM completes on process
\* p once every process has entered it; return sum
DotGridAllreduceReturn(p) ==
    /\ cvPc[p] = "allreduce"
    /\ \A q \in CvProcs : cvPc[q] \in {"allreduce", "returned"}
    /\ cvSum' = [cvSum EXCEPT ![p] = Some(SumSeq(cvTemp))]
    /\ cvPc' = [cvPc EXCEPT ![p] = "returned"]
    /\ UNCHANGED <<cvX, cvY, cvM, cvNx, cvOff, cvKinds, cvTemp, cvVisited>>
    /\ UNCHANGED notDotGrid

NextDotGrid ==
    \/ \E p \in CvProcs : DotGridLocalSum(p)
    \/ \E p \in CvProcs : DotGridAllreduceReturn(p)

SpecDotGrid == InitDotGrid /\ [][NextDotGrid]_vars

\* the weighted sum over the global grid, from the global fields: the
\* terms of the grid points number n and above
RECURSIVE GlobalSumFrom(_)
GlobalSumFrom(n) ==
    LET stride == Len(cvM)
        l == n % stride
        jg == 1 + ((n \div stride) % CvGlobalNx)
        i == 1 + ((n \div (stride * CvGlobalNx)) % (CvNy - 2))
        kk == n \div (stride * CvGlobalNx * (CvNy - 2))
    IN  IF n >= CvNz * (CvNy - 2) * CvGlobalNx * stride THEN 0
        ELSE CvField(cvKinds.x, kk, i, jg, l, stride) * cvM[l + 1]
                * CvField(cvKinds.y, kk, i, jg, l, stride)
             + GlobalSumFrom(n + 1)

GlobalWeightedSum == GlobalSumFrom(0)

\* the flat indices of the interior of process p
InteriorIdx(p) ==
    { FlatIdx(kk, i, j, l, CvNy, cvNx[p], Len(cvM)) :
        kk \in 0..(CvNz - 1), i \in 1..(CvNy - 2), j \in 1..(cvNx[p] - 2),
        l \in 0..(Len(cvM) - 1) }

\* C29: every process reads every one of its interior entries (rows
\* 1..Ny-2, columns 1..Nx-2, every z plane and stride entry) exactly once
\* and no ghost cell, and the value every process returns is the weighted
\* sum over the global grid, whatever the ghost cells hold.
C29_InteriorOnceNoGhost ==
    \A p \in CvProcs :
        /\ cvPc[p] # "call" =>
            /\ { cvVisited[p][n] : n \in DOMAIN cvVisited[p] } = InteriorIdx(p)
            /\ Len(cvVisited[p]) = Cardinality(InteriorIdx(p))
        /\ cvSum[p] # NoValue => cvSum[p][1] = GlobalWeightedSum

\* two processes have returned the sum of numbered fields with two stride
\* entries, their ghost cells holding different non-zero values
C29_Witness ==
    /\ Len(cvPc) = CvMaxProcs
    /\ \A p \in CvProcs : cvSum[p] # NoValue
    /\ Len(cvM) > 1
    /\ cvKinds.x = "numbered"
    /\ cvX[1][1] # 0 /\ cvX[2][1] # 0 /\ cvX[1][1] # cvX[2][1]
    /\ cvY[1][1] # 0

(***************************************************************************)
(* The ghost layers of the output of MPI_Matrix::symv                       *)
(***************************************************************************)
\* every boundary term of process p writes an interior column (row)
TermsNameInterior(p) ==
    /\ \A m \in DOMAIN smXterm[p].row_ :
        smXterm[p].row_[m] + 1 \in 1..(cols - 2)
    /\ \A m \in DOMAIN smYterm[p].row_ :
        smYterm[p].row_[m] + 1 \in 1..(rows - 2)

\* C30: after symv has returned on a process whose boundary terms name
\* interior columns and rows only, every ghost entry of its y is zero,
\* whatever y held before the call.
C30_GhostsOfOutputAreZero ==
    \A p \in SymvProcs :
        (smPc[p] = "done" /\ TermsNameInterior(p)) =>
            \A e \in LocalIdx : ~IsInterior(e) => smY[p][e] = 0

\* a call that applied boundary terms along both axes and the
\* preconditioner to a y that held non-zero values, and returned a non-zero
\* interior
C30_Witness ==
    \E p \in SymvProcs :
        /\ smPc[p] = "done" /\ Logged(p, "precond")
        /\ smXterm[p].data_ # <<>> /\ smYterm[p].data_ # <<>>
        /\ TermsNameInterior(p)
        /\ StaleOutput # 0
        /\ \E e \in LocalIdx : IsInterior(e) /\ smY[p][e] # 0

=============================================================================
